---- MODULE Spec2Model ----
(***************************************************************************)
(* Order workflow engine of core/workflow: the transition table, the guard *)
(* and effect registries and TransitionService, run by concurrent callers  *)
(* against one database (orders and the transition audit log).             *)
(***************************************************************************)
EXTENDS Integers, Sequences, FiniteSets, TLC

\* ------------------------------------------------------------------ bounds
\* Operations in one behaviour: transition() calls that enter the atomic
\* block, plus direct status updates (legacy admin path).
MaxOps == 2

Orders == {1, 2}
Callers == {"c1", "c2"}

\* ------------------------------------------------------------ order status
None == "None"
NoCaller == "nobody"

PENDING == "pending"
PAID == "paid"
SHIPPED == "shipped"
FULFILLED == "fulfilled"
REFUNDED == "refunded"
RETURNED == "returned"
CANCELLED == "cancelled"

OrderStatus == {PENDING, PAID, SHIPPED, FULFILLED, REFUNDED, RETURNED, CANCELLED}

\* ------------------------------------------------------- transition table
TRANSITIONSSplitCancel ==
  << [name |-> "mark_paid", from_states |-> <<PENDING>>, to_state |-> PAID,
      guards |-> <<"role_allowed", "payment_authorized">>,
      effects |-> <<"capture_payment", "reserve_inventory", "send_email", "emit_webhook">>],
     [name |-> "ship", from_states |-> <<PAID>>, to_state |-> SHIPPED,
      guards |-> <<"role_allowed", "inventory_available">>,
      effects |-> <<"send_email", "emit_webhook">>],
     [name |-> "fulfill", from_states |-> <<SHIPPED>>, to_state |-> FULFILLED,
      guards |-> <<"role_allowed">>,
      effects |-> <<"send_email", "emit_webhook">>],
     [name |-> "cancel", from_states |-> <<PENDING>>, to_state |-> CANCELLED,
      guards |-> <<"role_allowed">>,
      effects |-> <<"release_inventory", "send_email", "emit_webhook">>],
     [name |-> "cancel_paid", from_states |-> <<PAID>>, to_state |-> CANCELLED,
      guards |-> <<"role_allowed">>,
      effects |-> <<"release_inventory", "send_email", "emit_webhook">>],
     [name |-> "refund", from_states |-> <<FULFILLED>>, to_state |-> REFUNDED,
      guards |-> <<"role_allowed">>,
      effects |-> <<"refund_payment", "release_inventory", "send_email", "emit_webhook">>],
     [name |-> "return", from_states |-> <<FULFILLED>>, to_state |-> RETURNED,
      guards |-> <<"role_allowed">>,
      effects |-> <<"release_inventory", "send_email", "emit_webhook">>] >>

TRANSITIONS ==
  << [name |-> "mark_paid", from_states |-> <<PENDING>>, to_state |-> PAID,
      guards |-> <<"role_allowed", "payment_authorized">>,
      effects |-> <<"capture_payment", "reserve_inventory", "send_email", "emit_webhook">>],
     [name |-> "ship", from_states |-> <<PAID>>, to_state |-> SHIPPED,
      guards |-> <<"role_allowed", "inventory_available">>,
      effects |-> <<"send_email", "emit_webhook">>],
     [name |-> "fulfill", from_states |-> <<SHIPPED>>, to_state |-> FULFILLED,
      guards |-> <<"role_allowed">>,
      effects |-> <<"send_email", "emit_webhook">>],
     [name |-> "cancel", from_states |-> <<PENDING, PAID>>, to_state |-> CANCELLED,
      guards |-> <<"role_allowed">>,
      effects |-> <<"release_inventory", "send_email", "emit_webhook">>],
     [name |-> "refund", from_states |-> <<FULFILLED>>, to_state |-> REFUNDED,
      guards |-> <<"role_allowed">>,
      effects |-> <<"refund_payment", "release_inventory", "send_email", "emit_webhook">>],
     [name |-> "return", from_states |-> <<FULFILLED>>, to_state |-> RETURNED,
      guards |-> <<"role_allowed">>,
      effects |-> <<"release_inventory", "send_email", "emit_webhook">>] >>

Range(s) == {s[i] : i \in 1..Len(s)}

\* Index of "no transition" (Python None); definitions are referred to by
\* their position in TRANSITIONS.
NoTransition == 0

\* Line 195: the test _select_transition makes of a definition.
MatchesTargetOnly(i, from_state, to_state) == to_state = TRANSITIONS[i].to_state

MatchesSourceOnly(i, from_state, to_state) ==
  from_state \in Range(TRANSITIONS[i].from_states)

Matches(i, from_state, to_state) ==
  /\ to_state = TRANSITIONS[i].to_state
  /\ from_state \in Range(TRANSITIONS[i].from_states)

\* TransitionService._select_transition: first definition, in declaration
\* order, with this target and this source.
SelectTransitionAnySource(from_state, to_state) ==
  LET hits == {i \in 1..Len(TRANSITIONS) : to_state = TRANSITIONS[i].to_state}
  IN IF hits = {} THEN NoTransition ELSE CHOOSE i \in hits : \A j \in hits : i <= j

SelectTransitionFirstSource(from_state, to_state) ==
  LET hits == {i \in 1..Len(TRANSITIONS) :
                 /\ to_state = TRANSITIONS[i].to_state
                 /\ from_state = TRANSITIONS[i].from_states[1]}
  IN IF hits = {} THEN NoTransition ELSE CHOOSE i \in hits : \A j \in hits : i <= j

SelectTransition(from_state, to_state) ==
  LET hits == {i \in 1..Len(TRANSITIONS) : Matches(i, from_state, to_state)}
  IN IF hits = {} THEN NoTransition ELSE CHOOSE i \in hits : \A j \in hits : i <= j

\* ------------------------------------------------------ actors and guards
\* actor_user values: no actor (the default None), AnonymousUser, an
\* authenticated user without the change permission, a superuser.
NoActor == "no_actor"
Anonymous == "anonymous"
Clerk == "clerk"
Admin == "admin"
Actors == {NoActor, Anonymous, Clerk, Admin}

\* user.has_perm(perm)
HasPerm(user, perm) ==
  CASE user = Admin -> TRUE
    [] user = Clerk -> perm = "core.view_order"
    [] OTHER -> FALSE

\* user.is_authenticated
IsAuthenticated(user) == user \in {Clerk, Admin}

\* user.get_username()
Username(user) == IF user \in {Clerk, Admin} THEN user ELSE ""

\* params["required_perms"]; <<>> stands for a missing or empty entry.
DefaultRequiredPerms == <<"core.change_order">>

\* A guard's answer: ok and the reason (<<>> for Python None).
Allow == [ok |-> TRUE, reason |-> <<>>]
Deny(reason) == [ok |-> FALSE, reason |-> reason]

RECURSIVE FirstMissing(_, _, _)
FirstMissing(user, required, i) ==
  IF i > Len(required) THEN Allow
  ELSE IF ~HasPerm(user, required[i]) THEN Deny(<<"Missing permission", required[i]>>)
  ELSE FirstMissing(user, required, i + 1)

guard_role_allowedUnauthenticated(ctx) ==
  LET required == IF ctx.required_perms # <<>> THEN ctx.required_perms
                  ELSE DefaultRequiredPerms
  IN FirstMissing(ctx.actor_user, required, 1)

guard_role_allowed(ctx) ==
  LET required == IF ctx.required_perms # <<>> THEN ctx.required_perms
                  ELSE DefaultRequiredPerms
      user == ctx.actor_user
  IN IF user = NoActor \/ user = Anonymous
     THEN Deny(<<"Authentication required">>)
     ELSE FirstMissing(user, required, 1)

guard_payment_authorized(ctx) == Allow

guard_inventory_available(ctx) == Allow

\* registry._GUARDS after the built-in registrations, and get_guard applied.
GuardKeys == {"payment_authorized", "inventory_available", "role_allowed"}

CallGuard(key, ctx) ==
  CASE key = "payment_authorized" -> guard_payment_authorized(ctx)
    [] key = "inventory_available" -> guard_inventory_available(ctx)
    [] key = "role_allowed" -> guard_role_allowed(ctx)

\* registry._EFFECTS after the built-in registrations.
EffectKeys == {"capture_payment", "refund_payment", "reserve_inventory",
               "release_inventory", "send_email", "emit_webhook"}

\* TransitionService._evaluate_guards: guards in declared order, stopping at
\* the first that fails; call_guard[key] is the answer of the registered
\* guard, evaluated lists the guards that were called.
RECURSIVE EvalGuardsWithAll(_, _, _, _)
EvalGuardsWithAll(guards, call_guard, i, evaluated) ==
  IF i > Len(guards) THEN [ok |-> TRUE, reason |-> <<>>, evaluated |-> evaluated]
  ELSE LET r == call_guard[guards[i]]
           called == Append(evaluated, guards[i])
           rest == EvalGuardsWithAll(guards, call_guard, i + 1, called)
       IN IF rest.ok /\ ~r.ok
          THEN [ok |-> FALSE,
                reason |-> IF r.reason # <<>> THEN r.reason
                           ELSE <<"Guard failed", guards[i]>>,
                evaluated |-> rest.evaluated]
          ELSE rest

RECURSIVE EvalGuardsWith(_, _, _, _)
EvalGuardsWith(guards, call_guard, i, evaluated) ==
  IF i > Len(guards) THEN [ok |-> TRUE, reason |-> <<>>, evaluated |-> evaluated]
  ELSE LET r == call_guard[guards[i]]
           called == Append(evaluated, guards[i])
       IN IF ~r.ok
          THEN [ok |-> FALSE,
                reason |-> IF r.reason # <<>> THEN r.reason
                           ELSE <<"Guard failed", guards[i]>>,
                evaluated |-> called]
          ELSE EvalGuardsWith(guards, call_guard, i + 1, called)

\* get_guard(key)(ctx) for the guards a definition names.
GuardAnswers(guards, ctx) == [k \in Range(guards) |-> CallGuard(k, ctx)]

EvalGuardsFrom(guards, ctx, i, evaluated) ==
  EvalGuardsWith(guards, GuardAnswers(guards, ctx), i, evaluated)

EvaluateGuards(t, ctx) == EvalGuardsFrom(TRANSITIONS[t].guards, ctx, 1, <<>>)


\* ------------------------------------------------------------------ state
VARIABLES
  status,     \* Order.status as committed in the database, per order pk
  seen,       \* per order: the statuses a caller's order object may carry
  logs,       \* OrderTransitionLog rows by id, in insertion order; a deleted
              \* row leaves a tombstone, its id is not used again
  effectLog,  \* per order: the effect invocations made for it, in order
  lock,       \* per order: the caller holding the row lock, or NoCaller
  calls,      \* per caller: the transition() call in flight, or Idle
  last,       \* the call that has just returned, with its result, until the
              \* caller takes it; NoLast otherwise
  ncalls,     \* transition() calls that have entered the atomic block
  nwrites,    \* direct writes made through the admin (status updates, deletions)
  query,      \* the read-only service call or registry call that has just
              \* answered, with its arguments and answer; NoQuery otherwise
  registry,   \* registry._GUARDS and registry._EFFECTS: key -> callable
  session     \* request.session of one visitor: the wishlist and the cart

vars == <<status, seen, logs, effectLog, lock, calls, last, ncalls, nwrites,
          query, registry, session>>

\* The database and the transition() calls.
workvars == <<status, seen, logs, effectLog, lock, calls, last, ncalls, nwrites>>

\* All but query.
dbvars == <<workvars, registry, session>>

\* A session in which nothing was stored: no "wishlist" key (read as []) and
\* no "cart" key (read as {}); the cart maps str(product.id) to the qty of
\* its entry.
EmptySession == [wishlist |-> <<>>, cart |-> <<>>]

\* The registries after the module has been imported (lines 137-146): each
\* built-in key bound to its built-in callable, named by the key.
BuiltinRegistryNoWebhook ==
  [guards |-> [k \in GuardKeys |-> k],
   effects |-> [k \in EffectKeys \ {"emit_webhook"} |-> k]]

BuiltinRegistry ==
  [guards |-> [k \in GuardKeys |-> k], effects |-> [k \in EffectKeys |-> k]]

NoQuery == [op |-> "none"]

\* Idempotency keys a caller supplies: None (the default) and a token.
Keys == {None, "k1"}

\* Target strings a caller requests; "archived" is no OrderStatus.
Targets == {PAID, SHIPPED, CANCELLED, "archived"}

\* params["required_perms"] values a caller supplies.
RequiredPermsChoices == {<<>>}

\* actor_user values a caller supplies.
CallActors == {NoActor, Admin}

Idle == [pc |-> "idle"]

NoResult == [success |-> FALSE, from_state |-> None, to_state |-> None,
             messages |-> <<>>, errors |-> <<>>, idempotent |-> FALSE,
             log_id |-> 0, raised |-> None]

\* TransitionResult(...) with the dataclass defaults of types.py.
TransitionResult(success, from_state, to_state, messages, errors, idempotent, log_id) ==
  [success |-> success, from_state |-> from_state, to_state |-> to_state,
   messages |-> messages, errors |-> errors, idempotent |-> idempotent,
   log_id |-> log_id, raised |-> None]

\* An exception leaving transition(): there is no result object.
Raised(exc) == [NoResult EXCEPT !.raised = exc]

\* The locals of a transition() call: its arguments (order is the pk and
\* handle_status the status of the caller's order object), the committed
\* status when the optimistic check ran, the locked row's status, and the
\* locals of the atomic block.
NewCall(o, hs, to, actor, perms, key, dry) ==
  [pc |-> "lock", order |-> o, handle_status |-> hs, to_state |-> to,
   actor_user |-> actor, required_perms |-> perms, idempotency_key |-> key,
   dry_run |-> dry, at_check |-> status[o], locked_status |-> None,
   prev_state |-> None, latest |-> NoTransition, effect_msgs |-> <<>>]

NoLast ==
  [pc |-> "none", order |-> 0, handle_status |-> None, to_state |-> None,
   actor_user |-> NoActor, required_perms |-> <<>>, idempotency_key |-> None,
   dry_run |-> FALSE, at_check |-> None, locked_status |-> None,
   prev_state |-> None, latest |-> NoTransition, effect_msgs |-> <<>>,
   result |-> NoResult]

\* A returned call: its locals and its result.
Returned(call, result) == [call EXCEPT !.pc = "returned"] @@ [result |-> result]

Init ==
  /\ status = [o \in Orders |-> PENDING]
  /\ seen = [o \in Orders |-> {PENDING}]
  /\ logs = <<>>
  /\ effectLog = [o \in Orders |-> <<>>]
  /\ lock = [o \in Orders |-> NoCaller]
  /\ calls = [c \in Callers |-> Idle]
  /\ last = NoLast
  /\ ncalls = 0
  /\ nwrites = 0
  /\ query = NoQuery
  /\ registry = BuiltinRegistry
  /\ session = EmptySession

\* Python truthiness of idempotency_key (None and "" are falsy).
Truthy(key) == key # None /\ key # ""

\* OrderTransitionLog.objects.filter(order=locked, idempotency_key=key)
Existing(o, key) ==
  {i \in 1..Len(logs) : logs[i].order = o /\ logs[i].idempotency_key = key}

\* The unique index on OrderTransitionLog.idempotency_key: NULLs never
\* collide, every other value at most once.
UniqueViolationNever(key) == FALSE

UniqueViolation(key) ==
  key # None /\ \E i \in 1..Len(logs) : logs[i].idempotency_key = key

\* Leaving the atomic block releases the row lock.
ReleaseNever(c) == lock' = lock

Release(c) == lock' = [lock EXCEPT ![calls[c].order] = NoCaller]

\* A return from inside the atomic block.
ReturnFrom(c, result) ==
  /\ last' = Returned(calls[c], result)
  /\ calls' = [calls EXCEPT ![c] = Idle]
  /\ Release(c)

\* --------------------------------------------------------------- actions
\* Line 111: if dry_run
DryRunNever(call) == FALSE

DryRunRequested(call) == call.dry_run

\* Lines 84-89 and 104-109: the result of a call that fails the optimistic
\* check, from the caller's order object.
CheckFailureFromRow(call, reason) ==
  TransitionResult(FALSE, call.at_check, None, <<>>, << reason >>, FALSE, 0)

CheckFailure(call, reason) ==
  TransitionResult(FALSE, call.handle_status, None, <<>>, << reason >>, FALSE, 0)

\* transition(), lines 81-117: selection and guards on the caller's order
\* object, then dry run; a real call goes on to the atomic block.
Call(c) ==
  /\ last = NoLast
  /\ calls[c].pc = "idle"
  /\ ncalls + nwrites < MaxOps
  /\ \E o \in Orders, to \in Targets, actor \in CallActors,
        perms \in RequiredPermsChoices, key \in Keys, dry \in BOOLEAN :
     \E hs \in seen[o] :
     LET call == NewCall(o, hs, to, actor, perms, key, dry)
         t == SelectTransition(hs, to)
         g == EvaluateGuards(t, call)
     IN /\ IF t = NoTransition
           THEN /\ last' = Returned(call,
                              CheckFailure(call, <<"No transition defined", hs, to>>))
                /\ UNCHANGED <<calls, ncalls>>
           ELSE IF ~g.ok
           THEN /\ last' = Returned(call, CheckFailure(call, g.reason))
                /\ UNCHANGED <<calls, ncalls>>
           ELSE IF DryRunRequested(call)
           THEN /\ last' = Returned(call, TransitionResult(TRUE, hs, to,
                              << <<"Dry-run OK", hs, to, TRANSITIONS[t].name>> >>,
                              <<>>, FALSE, 0))
                /\ UNCHANGED <<calls, ncalls>>
           ELSE /\ calls' = [calls EXCEPT ![c] = call]
                /\ ncalls' = ncalls + 1
                /\ UNCHANGED last
  /\ UNCHANGED <<status, seen, logs, effectLog, lock, nwrites>>
  /\ UNCHANGED <<query, registry, session>>

\* The order's row is in the table (a deleted order has no status).
RowExists(o) == status[o] # None

\* Order.objects.select_for_update().get(pk=order.pk) inside atomic():
\* waits for the row lock, then reads the committed row; get() raises
\* Order.DoesNotExist when the row is gone.
LockIgnored(o) == TRUE

LockFree(o) == lock[o] = NoCaller

AcquireLock(c) ==
  /\ last = NoLast
  /\ calls[c].pc = "lock"
  /\ LockFree(calls[c].order)
  /\ IF RowExists(calls[c].order)
     THEN /\ lock' = [lock EXCEPT ![calls[c].order] = c]
          /\ calls' = [calls EXCEPT ![c].pc = "locked",
                                    ![c].locked_status = status[calls[c].order]]
          /\ UNCHANGED last
     ELSE /\ last' = Returned(calls[c], Raised("DoesNotExist"))
          /\ calls' = [calls EXCEPT ![c] = Idle]
          /\ UNCHANGED lock
  /\ UNCHANGED <<status, seen, logs, effectLog, ncalls, nwrites>>
  /\ UNCHANGED <<query, registry, session>>

\* Lines 128-137: an audit entry with the key exists for the order; the
\* call returns the replay of existing.first().
ReplayRerunsEffects(c, existing) ==
  LET log == logs[CHOOSE i \in existing : \A j \in existing : i >= j]
      effects == TRANSITIONS[SelectTransition(log.from_state, log.to_state)].effects
  IN /\ ReturnFrom(c, TransitionResult(TRUE, log.from_state, log.to_state,
                        << <<"Idempotent replay">> >>, <<>>, TRUE, log.id))
     /\ effectLog' = [effectLog EXCEPT ![calls[c].order] = @ \o
          [n \in 1..Len(effects) |->
            [n |-> n, idempotency_key |-> calls[c].idempotency_key,
             effect |-> effects[n]]]]
     /\ UNCHANGED <<status, seen, logs, ncalls, nwrites>>

Replay(c, existing) ==
  LET log == logs[CHOOSE i \in existing : \A j \in existing : i >= j]
  IN /\ ReturnFrom(c, TransitionResult(TRUE, log.from_state, log.to_state,
                        << <<"Idempotent replay">> >>, <<>>, TRUE, log.id))
     /\ UNCHANGED <<status, seen, logs, effectLog, ncalls, nwrites>>

\* Line 140: the status the re-selection reads.
RevalidationStatusStale(call) == call.handle_status

RevalidationStatus(call) == call.locked_status

\* Lines 141-147: no definition from the locked row's status.
RejectFromHandle(c) ==
  /\ ReturnFrom(c, TransitionResult(FALSE, calls[c].handle_status, None, <<>>,
                     << <<"State changed concurrently", calls[c].handle_status,
                          calls[c].to_state>> >>, FALSE, 0))
  /\ UNCHANGED <<status, seen, logs, effectLog, ncalls, nwrites>>

Reject(c) ==
  /\ ReturnFrom(c, TransitionResult(FALSE, calls[c].locked_status, None, <<>>,
                     << <<"State changed concurrently", calls[c].locked_status,
                          calls[c].to_state>> >>, FALSE, 0))
  /\ UNCHANGED <<status, seen, logs, effectLog, ncalls, nwrites>>

\* Lines 149-152: the status write inside the transaction (not yet
\* committed: other connections read the old row).
SaveStatusFromHandle(c, latest) ==
  /\ calls' = [calls EXCEPT ![c].pc = "effects",
                            ![c].latest = latest,
                            ![c].prev_state = calls[c].handle_status,
                            ![c].locked_status = calls[c].to_state]
  /\ UNCHANGED <<status, seen, logs, effectLog, lock, last, ncalls, nwrites>>

SaveStatus(c, latest) ==
  /\ calls' = [calls EXCEPT ![c].pc = "effects",
                            ![c].latest = latest,
                            ![c].prev_state = calls[c].locked_status,
                            ![c].locked_status = calls[c].to_state]
  /\ UNCHANGED <<status, seen, logs, effectLog, lock, last, ncalls, nwrites>>

\* Lines 123-152, under the lock: the idempotency check, then the
\* re-selection on the locked row's status, then the status write.
ValidateBeforeReplay(c) ==
  /\ last = NoLast
  /\ calls[c].pc = "locked"
  /\ LET call == calls[c]
         existing == Existing(call.order, call.idempotency_key)
         latest == SelectTransition(RevalidationStatus(call), call.to_state)
     IN IF latest = NoTransition
        THEN Reject(c)
        ELSE IF Truthy(call.idempotency_key) /\ existing # {}
        THEN Replay(c, existing)
        ELSE SaveStatus(c, latest)
  /\ UNCHANGED <<query, registry, session>>

Validate(c) ==
  /\ last = NoLast
  /\ calls[c].pc = "locked"
  /\ LET call == calls[c]
         existing == Existing(call.order, call.idempotency_key)
         latest == SelectTransition(RevalidationStatus(call), call.to_state)
     IN IF Truthy(call.idempotency_key) /\ existing # {}
        THEN Replay(c, existing)
        ELSE IF latest = NoTransition
        THEN Reject(c)
        ELSE SaveStatus(c, latest)
  /\ UNCHANGED <<query, registry, session>>

\* Lines 154-169: the effects of the re-selected definition, in declared
\* order, each leaving its completion message.
EffectsOfFirstOnly(call) == SubSeq(TRANSITIONS[call.latest].effects, 1, 1)

EffectsOf(call) == TRANSITIONS[call.latest].effects

RunEffects(c) ==
  /\ last = NoLast
  /\ calls[c].pc = "effects"
  /\ LET call == calls[c]
         effects == EffectsOf(call)
     IN /\ effectLog' = [effectLog EXCEPT ![call.order] = @ \o
             [n \in 1..Len(effects) |->
               [n |-> n, idempotency_key |-> call.idempotency_key,
                effect |-> effects[n]]]]
        /\ calls' = [calls EXCEPT ![c].pc = "audit",
                       ![c].effect_msgs =
                         [n \in 1..Len(effects) |-> <<"effect", effects[n], "ok">>]]
  /\ UNCHANGED <<status, seen, logs, lock, last, ncalls, nwrites>>
  /\ UNCHANGED <<query, registry, session>>

\* Line 174: from_state=prev_state
AuditFromStateHandle(call) == call.handle_status

AuditFromState(call) == call.prev_state

\* Lines 172-181: the row OrderTransitionLog.objects.create inserts.
NewLog(call) ==
  [id |-> Len(logs) + 1, order |-> call.order,
   from_state |-> AuditFromState(call), to_state |-> call.to_state,
   actor_user |-> IF IsAuthenticated(call.actor_user) THEN call.actor_user ELSE None,
   actor_label |-> IF call.actor_user # NoActor THEN Username(call.actor_user) ELSE "",
   transition |-> TRANSITIONS[call.latest].name,
   required_perms |-> call.required_perms,
   effects |-> call.effect_msgs,
   idempotency_key |-> call.idempotency_key]

\* Lines 171-189 and the end of atomic(): the audit insert, then commit and
\* return; an IntegrityError from the unique index leaves the block as an
\* exception, which rolls the transaction back.
WriteAuditLog(c) ==
  /\ last = NoLast
  /\ calls[c].pc = "audit"
  /\ LET call == calls[c]
     IN IF UniqueViolation(call.idempotency_key)
        THEN /\ ReturnFrom(c, Raised("IntegrityError"))
             /\ UNCHANGED <<status, seen, logs>>
        ELSE /\ logs' = Append(logs, NewLog(call))
             /\ status' = [status EXCEPT ![call.order] = call.locked_status]
             /\ seen' = [seen EXCEPT ![call.order] = @ \cup {call.locked_status}]
             /\ ReturnFrom(c, TransitionResult(TRUE, call.prev_state, call.to_state,
                                << <<call.prev_state, call.to_state,
                                     TRANSITIONS[call.latest].name>> >> \o call.effect_msgs,
                                <<>>, FALSE, Len(logs) + 1))
  /\ UNCHANGED <<effectLog, ncalls, nwrites>>
  /\ UNCHANGED <<query, registry, session>>

\* The targets of the table's definitions.
TableTargets == {TRANSITIONS[i].to_state : i \in 1..Len(TRANSITIONS)}

\* TransitionService.transitions_for_state
TransitionsForState(state) ==
  {i \in 1..Len(TRANSITIONS) : state \in Range(TRANSITIONS[i].from_states)}

\* queryset.update(status=to_state): with WORKFLOW_ENABLED off the admin
\* actions write the status of a selected order directly. mark_paid and
\* mark_cancelled write their fixed target; apply_transition writes a target
\* offered by the form, one reachable from the selected order's status. The
\* UPDATE waits for a row lock held by a transaction.
FormChoices(o) == {TRANSITIONS[i].to_state : i \in TransitionsForState(status[o])}

DirectUpdate(o, to) ==
  /\ last = NoLast
  /\ ncalls + nwrites < MaxOps
  /\ RowExists(o)
  /\ to \in {PAID, CANCELLED} \cup FormChoices(o)
  /\ lock[o] = NoCaller
  /\ status' = [status EXCEPT ![o] = to]
  /\ seen' = [seen EXCEPT ![o] = @ \cup {to}]
  /\ nwrites' = nwrites + 1
  /\ UNCHANGED <<logs, effectLog, lock, calls, last, ncalls>>
  /\ UNCHANGED <<query, registry, session>>

\* The caller takes the returned TransitionResult.
TakeResult ==
  /\ last # NoLast
  /\ last' = NoLast
  /\ UNCHANGED <<status, seen, logs, effectLog, lock, calls, ncalls, nwrites>>
  /\ UNCHANGED <<query, registry, session>>

Next ==
  \/ \E c \in Callers : Call(c)
  \/ \E c \in Callers : AcquireLock(c)
  \/ \E c \in Callers : Validate(c)
  \/ \E c \in Callers : RunEffects(c)
  \/ \E c \in Callers : WriteAuditLog(c)
  \/ \E o \in Orders, to \in OrderStatus : DirectUpdate(o, to)
  \/ TakeResult

Spec == Init /\ [][Next]_vars

\* ------------------------------------------------- effects that may raise
\* The row of an order after an exception has left `with transaction.atomic()`
\* (line 119): the block's writes are discarded, the committed row stands.
RolledBackKeepsWrite(call) == call.locked_status

RolledBack(call) == status[call.order]

\* Lines 156-169 when effect number n raises (get_effect on an unregistered
\* key, or the registered callable itself): the effects before it have run,
\* no message is appended for it, and the exception leaves the loop, the
\* atomic block and transition().
EffectRaises(c) ==
  /\ last = NoLast
  /\ calls[c].pc = "effects"
  /\ LET call == calls[c]
         effects == EffectsOf(call)
     IN \E n \in 1..Len(effects) :
          /\ effectLog' = [effectLog EXCEPT ![call.order] = @ \o
               [m \in 1..n |->
                 [n |-> m, idempotency_key |-> call.idempotency_key,
                  effect |-> effects[m]]]]
          /\ last' = Returned(
               [call EXCEPT !.effect_msgs =
                  [m \in 1..(n - 1) |-> <<"effect", effects[m], "ok">>]],
               Raised("EffectError"))
          /\ status' = [status EXCEPT ![call.order] = RolledBack(call)]
  /\ calls' = [calls EXCEPT ![c] = Idle]
  /\ Release(c)
  /\ UNCHANGED <<seen, logs, ncalls, nwrites>>
  /\ UNCHANGED <<query, registry, session>>

NextFaulty ==
  \/ Next
  \/ \E c \in Callers : EffectRaises(c)

SpecFaulty == Init /\ [][NextFaulty]_vars

\* ------------------------------------------------- calls that keep running
\* Every call runs in a thread that keeps being scheduled, every guard and
\* effect terminates, and the database grants a released row lock to a
\* waiting select_for_update: a step of a call that is possible again and
\* again is eventually taken, and a returned result is eventually consumed.
CallsKeepRunning ==
  /\ \A c \in Callers : SF_vars(AcquireLock(c))
  /\ \A c \in Callers : SF_vars(Validate(c))
  /\ \A c \in Callers : SF_vars(RunEffects(c))
  /\ \A c \in Callers : SF_vars(WriteAuditLog(c))
  /\ WF_vars(TakeResult)

SpecLive == Init /\ [][NextFaulty]_vars /\ CallsKeepRunning

\* ------------------------------------------------- engine-only writes
\* The service as the only writer of Order.status: no admin write on the
\* legacy path, no deletion; effects may raise.
NextEngine ==
  \/ \E c \in Callers : Call(c)
  \/ \E c \in Callers : AcquireLock(c)
  \/ \E c \in Callers : Validate(c)
  \/ \E c \in Callers : RunEffects(c)
  \/ \E c \in Callers : WriteAuditLog(c)
  \/ \E c \in Callers : EffectRaises(c)
  \/ TakeResult

SpecEngine == Init /\ [][NextEngine]_vars

\* ------------------------------------------------------ order deletion
\* What is left at the id of a deleted OrderTransitionLog row.
Tombstone(id) ==
  [id |-> id, order |-> 0, from_state |-> None, to_state |-> None,
   actor_user |-> None, actor_label |-> "", transition |-> "",
   required_perms |-> <<>>, effects |-> <<>>, idempotency_key |-> None]

\* obj=None: has_delete_permission asked for no order in particular.
NoOrder == 0

\* ModelAdmin.has_delete_permission, the default: the user's delete
\* permission on the model.
DefaultDeletePermission(user) == HasPerm(user, "core.delete_order")

\* OrderAdmin.has_delete_permission: false for a paid order, the default
\* for every other order and for obj=None.
HasDeletePermissionDefault(user, obj) == DefaultDeletePermission(user)

HasDeletePermission(user, obj) ==
  IF obj # NoOrder /\ status[obj] = PAID
  THEN FALSE
  ELSE DefaultDeletePermission(user)

\* The rows of OrderTransitionLog that go with an order: the foreign key
\* order is on_delete=CASCADE.
Cascade(o) == {i \in 1..Len(logs) : logs[i].order = o}

\* The admin deletes an order: the row and the rows that cascade from it
\* are removed in one transaction; the DELETE waits for a row lock.
DeleteOrder(o) ==
  /\ last = NoLast
  /\ ncalls + nwrites < MaxOps
  /\ RowExists(o)
  /\ \E user \in {Anonymous, Clerk, Admin} : HasDeletePermission(user, o)
  /\ lock[o] = NoCaller
  /\ status' = [status EXCEPT ![o] = None]
  /\ logs' = [i \in 1..Len(logs) |->
               IF i \in Cascade(o) THEN Tombstone(i) ELSE logs[i]]
  /\ nwrites' = nwrites + 1
  /\ UNCHANGED <<seen, effectLog, lock, calls, last, ncalls, query, registry, session>>

NextAdmin ==
  \/ Next
  \/ \E o \in Orders : DeleteOrder(o)

SpecAdmin == Init /\ [][NextAdmin]_vars

\* ------------------------------------------------- read-only service calls
\* The context of a read-only call: the fields the guards read.
QueryContext(actor, perms) == [actor_user |-> actor, required_perms |-> perms]

\* TransitionAttempt(transition, allowed, reason); transition is the index
\* of the definition, or NoTransition for the placeholder can_transition
\* builds, whose name, sources and target are then name, from_states and
\* to_state. evaluated lists the guards the call evaluated.
Attempt(t, allowed, reason, evaluated) ==
  [transition |-> t, name |-> <<TRANSITIONS[t].name>>,
   from_states |-> TRANSITIONS[t].from_states, to_state |-> TRANSITIONS[t].to_state,
   allowed |-> allowed, reason |-> reason, evaluated |-> evaluated]

\* TransitionService.can_transition
CanTransition(order_status, to_state, ctx) ==
  LET t == SelectTransition(order_status, to_state)
  IN IF t = NoTransition
     THEN [transition |-> NoTransition, name |-> <<"to", to_state>>,
           from_states |-> <<order_status>>, to_state |-> to_state,
           allowed |-> FALSE,
           reason |-> <<"Transition is not defined", order_status, to_state>>,
           evaluated |-> <<>>]
     ELSE LET g == EvaluateGuards(t, ctx)
          IN Attempt(t, g.ok, g.reason, g.evaluated)

\* A set of definition indexes as the list in declaration order.
RECURSIVE InOrder(_)
InOrder(S) ==
  IF S = {} THEN <<>>
  ELSE LET m == CHOOSE x \in S : \A y \in S : x <= y
       IN <<m>> \o InOrder(S \ {m})

\* TransitionService.allowed_transitions; ctx_given is false for ctx=None.
AllowedWithoutGuards(t, ctx_given, ctx) == Attempt(t, TRUE, <<>>, <<>>)

AllowedAttempt(t, ctx_given, ctx) ==
  IF ~ctx_given
  THEN Attempt(t, TRUE, <<>>, <<>>)
  ELSE LET g == EvaluateGuards(t, ctx)
       IN Attempt(t, g.ok, g.reason, g.evaluated)

AllowedTransitions(order_status, ctx_given, ctx) ==
  LET ts == InOrder(TransitionsForState(order_status))
  IN [n \in 1..Len(ts) |-> AllowedAttempt(ts[n], ctx_given, ctx)]

\* Arguments of the read-only calls.
QueryTargets == OrderStatus \cup {"archived"}
QueryPerms == {<<>>, <<"core.view_order">>, <<"core.view_order", "core.change_order">>}

\* Guards registered with register_guard beside the built-in ones, and the
\* answers a guard callable can give: (True, None), (False, reason) and
\* (False, None).
TestGuardKeys == {"A", "B"}
TestGuardLists == {<<>>, <<"A">>, <<"A", "B">>, <<"B", "A">>}
GuardAnswer(key, kind) ==
  CASE kind = "ok" -> Allow
    [] kind = "deny" -> Deny(<<"denied by", key>>)
    [] kind = "deny_silent" -> Deny(<<>>)
TestGuardAnswers ==
  {[k \in TestGuardKeys |-> GuardAnswer(k, f[k])] :
     f \in [TestGuardKeys -> {"ok", "deny", "deny_silent"}]}

CanTransitionQuery ==
  /\ query = NoQuery
  /\ \E o \in Orders, to \in QueryTargets, actor \in Actors, perms \in QueryPerms :
       query' = [op |-> "can_transition", order |-> o, status |-> status[o],
                 to_state |-> to, actor_user |-> actor, required_perms |-> perms,
                 ctx_given |-> TRUE,
                 answer |-> CanTransition(status[o], to, QueryContext(actor, perms))]
  /\ UNCHANGED dbvars

AllowedTransitionsQuery ==
  /\ query = NoQuery
  /\ \E o \in Orders, given \in BOOLEAN, actor \in Actors, perms \in QueryPerms :
       /\ ~given => actor = NoActor /\ perms = <<>>
       /\ query' = [op |-> "allowed_transitions", order |-> o, status |-> status[o],
                    to_state |-> None, actor_user |-> actor, required_perms |-> perms,
                    ctx_given |-> given,
                    answer |-> AllowedTransitions(status[o], given,
                                                  QueryContext(actor, perms))]
  /\ UNCHANGED dbvars

SelectTransitionQuery ==
  /\ query = NoQuery
  /\ \E from \in OrderStatus, to \in QueryTargets :
       query' = [op |-> "select_transition", from_state |-> from, to_state |-> to,
                 answer |-> SelectTransition(from, to)]
  /\ UNCHANGED dbvars

EvaluateGuardsQuery ==
  /\ query = NoQuery
  /\ \E guards \in TestGuardLists, answers \in TestGuardAnswers :
       query' = [op |-> "evaluate_guards", guards |-> guards, answers |-> answers,
                 answer |-> EvalGuardsWith(guards, answers, 1, <<>>)]
  /\ UNCHANGED dbvars

\* params["required_perms"] as given to the guard: lists naming one or two
\* permissions, an empty list, or no entry at all (has_entry false).
GuardPerms == QueryPerms \cup {<<"core.delete_order", "core.view_order">>}

\* guard_role_allowed called with a context.
RoleAllowedQuery ==
  /\ query = NoQuery
  /\ \E actor \in Actors, has_entry \in BOOLEAN, perms \in GuardPerms :
       /\ ~has_entry => perms = <<>>
       /\ query' = [op |-> "guard_role_allowed", actor_user |-> actor,
                    has_entry |-> has_entry, required_perms |-> perms,
                    answer |-> guard_role_allowed(QueryContext(actor, perms))]
  /\ UNCHANGED dbvars

\* transition(), lines 81-117: how far a call gets before the atomic block.
\* It can succeed only by returning the dry run or by entering the block.
TransitionCheck(order_status, to_state, ctx, dry_run) ==
  LET t == SelectTransition(order_status, to_state)
      g == EvaluateGuards(t, ctx)
  IN IF t = NoTransition
     THEN [outcome |-> "failure",
           errors |-> << <<"No transition defined", order_status, to_state>> >>,
           evaluated |-> <<>>]
     ELSE IF ~g.ok
     THEN [outcome |-> "failure", errors |-> << g.reason >>, evaluated |-> g.evaluated]
     ELSE IF dry_run
     THEN [outcome |-> "dry_run_ok", errors |-> <<>>, evaluated |-> g.evaluated]
     ELSE [outcome |-> "enters_atomic", errors |-> <<>>, evaluated |-> g.evaluated]

TransitionCheckQuery ==
  /\ query = NoQuery
  /\ \E o \in Orders, to \in QueryTargets, actor \in Actors, perms \in QueryPerms,
        dry \in BOOLEAN :
       query' = [op |-> "transition", order |-> o, status |-> status[o],
                 to_state |-> to, actor_user |-> actor, required_perms |-> perms,
                 dry_run |-> dry,
                 answer |-> TransitionCheck(status[o], to, QueryContext(actor, perms), dry)]
  /\ UNCHANGED dbvars

\* OrderAdmin.has_delete_permission(request, obj) for request.user, who is
\* a user or AnonymousUser, and an order or None.
HasDeletePermissionQuery ==
  /\ query = NoQuery
  /\ \E user \in {Anonymous, Clerk, Admin}, obj \in Orders \cup {NoOrder} :
       query' = [op |-> "has_delete_permission", user |-> user, obj |-> obj,
                 status |-> IF obj = NoOrder THEN None ELSE status[obj],
                 answer |-> HasDeletePermission(user, obj)]
  /\ UNCHANGED dbvars

\* The caller takes the answer.
TakeAnswer ==
  /\ query # NoQuery
  /\ query' = NoQuery
  /\ UNCHANGED dbvars

\* Orders in any status, no transition() call in flight.
InitQueries ==
  /\ status \in [Orders -> OrderStatus]
  /\ seen = [o \in Orders |-> {status[o]}]
  /\ logs = <<>>
  /\ effectLog = [o \in Orders |-> <<>>]
  /\ lock = [o \in Orders |-> NoCaller]
  /\ calls = [c \in Callers |-> Idle]
  /\ last = NoLast
  /\ ncalls = 0
  /\ nwrites = 0
  /\ query = NoQuery
  /\ registry = BuiltinRegistry
  /\ session = EmptySession

NextQueries ==
  \/ CanTransitionQuery
  \/ AllowedTransitionsQuery
  \/ SelectTransitionQuery
  \/ EvaluateGuardsQuery
  \/ RoleAllowedQuery
  \/ TransitionCheckQuery
  \/ HasDeletePermissionQuery
  \/ TakeAnswer

SpecQueries == InitQueries /\ [][NextQueries]_vars

\* ------------------------------------------------------------- registries
\* Keys and callables offered to the registry functions: a built-in guard
\* key, a built-in effect key and a key no built-in uses.
RegistryKeys == {"role_allowed", "send_email", "custom"}
Callables == {"f1", "f2"}

\* An exception of the registry functions, or a value they return.
\* fn is the callable passed to a register function, None for a get.
ConfigError(op, key, fn) ==
  [op |-> op, key |-> key, fn |-> fn, raised |-> "ImproperlyConfigured",
   answer |-> None]

Returns(op, key, fn, value) ==
  [op |-> op, key |-> key, fn |-> fn, raised |-> None, answer |-> value]

\* Lines 18 and 31: if key in _GUARDS / _EFFECTS
NeverRegistered(table, key) == FALSE

AlreadyRegistered(table, key) == key \in DOMAIN table

\* register_guard
RegisterGuard(key, fn) ==
  /\ query = NoQuery
  /\ last = NoLast
  /\ IF AlreadyRegistered(registry.guards, key)
     THEN /\ query' = ConfigError("register_guard", key, fn)
          /\ UNCHANGED registry
     ELSE /\ registry' = [registry EXCEPT !.guards = (key :> fn) @@ @]
          /\ query' = Returns("register_guard", key, fn, None)
  /\ UNCHANGED <<workvars, session>>

\* register_effect
RegisterEffect(key, fn) ==
  /\ query = NoQuery
  /\ last = NoLast
  /\ IF AlreadyRegistered(registry.effects, key)
     THEN /\ query' = ConfigError("register_effect", key, fn)
          /\ UNCHANGED registry
     ELSE /\ registry' = [registry EXCEPT !.effects = (key :> fn) @@ @]
          /\ query' = Returns("register_effect", key, fn, None)
  /\ UNCHANGED <<workvars, session>>

\* get_guard
GetGuard(key) ==
  /\ query = NoQuery
  /\ last = NoLast
  /\ query' = IF key \in DOMAIN registry.guards
              THEN Returns("get_guard", key, None, registry.guards[key])
              ELSE ConfigError("get_guard", key, None)
  /\ UNCHANGED dbvars

\* get_effect
GetEffect(key) ==
  /\ query = NoQuery
  /\ last = NoLast
  /\ query' = IF key \in DOMAIN registry.effects
              THEN Returns("get_effect", key, None, registry.effects[key])
              ELSE ConfigError("get_effect", key, None)
  /\ UNCHANGED dbvars

\* TransitionService(transitions=[...]) (lines 22-23): a service built with
\* a table of its own, here one definition pending -> paid whose guard is
\* guard_key and whose effects are send_email, then effect_key.
CustomTable(guard_key, effect_key) ==
  << [name |-> "custom", from_states |-> <<PENDING>>, to_state |-> PAID,
      guards |-> <<guard_key>>, effects |-> <<"send_email", effect_key>>] >>

\* The answers a registered guard may give: a built-in gives its own, a
\* callable registered later is free to allow or deny.
GuardVerdicts(fn, ctx) ==
  IF fn \in GuardKeys THEN {CallGuard(fn, ctx)}
  ELSE {Allow, Deny(<<"denied by", fn>>)}

\* Lines 156-157: the first effect of the list, if any, that get_effect
\* does not find; 0 when all are registered.
FirstUnknownEffect(effects) ==
  LET unknown == {n \in 1..Len(effects) : effects[n] \notin DOMAIN registry.effects}
  IN IF unknown = {} THEN 0 ELSE CHOOSE n \in unknown : \A m \in unknown : n <= m

\* transition() of a service with a custom table, run alone from line 81 to
\* its return or exception: order o, target paid, a superuser, no
\* idempotency key, not a dry run. get_guard raises at line 201, before the
\* atomic block; get_effect raises at line 157, after the status write of
\* line 152, and the exception rolls the block back.
TransitionWithTable(o, guard_key, effect_key) ==
  /\ last = NoLast
  /\ query = NoQuery
  /\ ncalls + nwrites < MaxOps
  /\ RowExists(o)
  /\ LockFree(o)
  /\ LET t == CustomTable(guard_key, effect_key)[1]
         call == NewCall(o, status[o], PAID, Admin, <<>>, None, FALSE)
         locked == [call EXCEPT !.latest = 1, !.prev_state = status[o],
                                !.locked_status = PAID]
         bad == FirstUnknownEffect(t.effects)
         ran == IF bad = 0 THEN Len(t.effects) ELSE bad - 1
         msgs == [n \in 1..ran |-> <<"effect", t.effects[n], "ok">>]
         done == [locked EXCEPT !.effect_msgs = msgs]
     IN IF status[o] \notin Range(t.from_states)
        THEN /\ last' = Returned(call, CheckFailure(call,
                           <<"No transition defined", status[o], PAID>>))
             /\ UNCHANGED <<status, seen, logs, effectLog, ncalls>>
        ELSE IF guard_key \notin DOMAIN registry.guards
        THEN /\ last' = Returned(call, Raised("ImproperlyConfigured"))
             /\ UNCHANGED <<status, seen, logs, effectLog, ncalls>>
        ELSE \E g \in GuardVerdicts(registry.guards[guard_key], call) :
          IF ~g.ok
          THEN /\ last' = Returned(call, CheckFailure(call, g.reason))
               /\ UNCHANGED <<status, seen, logs, effectLog, ncalls>>
          ELSE /\ ncalls' = ncalls + 1
               /\ effectLog' = [effectLog EXCEPT ![o] = @ \o
                    [n \in 1..ran |->
                      [n |-> n, idempotency_key |-> None, effect |-> t.effects[n]]]]
               /\ IF bad # 0
                  THEN /\ last' = Returned(done, Raised("ImproperlyConfigured"))
                       /\ status' = [status EXCEPT ![o] = RolledBack(done)]
                       /\ UNCHANGED <<seen, logs>>
                  ELSE /\ logs' = Append(logs, [NewLog(done) EXCEPT !.transition = t.name])
                       /\ status' = [status EXCEPT ![o] = PAID]
                       /\ seen' = [seen EXCEPT ![o] = @ \cup {PAID}]
                       /\ last' = Returned(done, TransitionResult(TRUE, status[o], PAID,
                                     << <<status[o], PAID, t.name>> >> \o msgs,
                                     <<>>, FALSE, Len(logs) + 1))
  /\ UNCHANGED <<lock, calls, nwrites, query, registry, session>>

NextRegistry ==
  \/ \E key \in RegistryKeys, fn \in Callables : RegisterGuard(key, fn)
  \/ \E key \in RegistryKeys, fn \in Callables : RegisterEffect(key, fn)
  \/ \E key \in RegistryKeys : GetGuard(key)
  \/ \E key \in RegistryKeys : GetEffect(key)
  \/ \E o \in Orders, guard_key \in RegistryKeys, effect_key \in RegistryKeys :
       TransitionWithTable(o, guard_key, effect_key)
  \/ TakeResult
  \/ TakeAnswer

SpecRegistry == Init /\ [][NextRegistry]_vars

\* The registry lookups a can_transition, allowed_transitions or transition
\* call makes for definition i of the canonical table: get_guard for its
\* guard keys in declared order (line 201), then get_effect for its effect
\* keys in declared order (line 157). The first key that is not registered
\* raises; otherwise the callables found are the answer.
ResolveKeys(i) ==
  /\ query = NoQuery
  /\ last = NoLast
  /\ LET t == TRANSITIONS[i]
         no_guard == {n \in 1..Len(t.guards) : t.guards[n] \notin DOMAIN registry.guards}
         no_effect == {n \in 1..Len(t.effects) : t.effects[n] \notin DOMAIN registry.effects}
     IN query' =
          IF no_guard # {}
          THEN [op |-> "resolve", transition |-> i, raised |-> "ImproperlyConfigured",
                key |-> t.guards[CHOOSE n \in no_guard : \A m \in no_guard : n <= m],
                guards |-> <<>>, effects |-> <<>>]
          ELSE IF no_effect # {}
          THEN [op |-> "resolve", transition |-> i, raised |-> "ImproperlyConfigured",
                key |-> t.effects[CHOOSE n \in no_effect : \A m \in no_effect : n <= m],
                guards |-> <<>>, effects |-> <<>>]
          ELSE [op |-> "resolve", transition |-> i, raised |-> None, key |-> None,
                guards |-> [n \in 1..Len(t.guards) |-> registry.guards[t.guards[n]]],
                effects |-> [n \in 1..Len(t.effects) |-> registry.effects[t.effects[n]]]]
  /\ UNCHANGED dbvars

\* Registrations made after import, and the lookups of the canonical table.
NextCanonical ==
  \/ \E key \in RegistryKeys, fn \in Callables : RegisterGuard(key, fn)
  \/ \E key \in RegistryKeys, fn \in Callables : RegisterEffect(key, fn)
  \/ \E i \in 1..Len(TRANSITIONS) : ResolveKeys(i)
  \/ TakeAnswer

SpecCanonical == Init /\ [][NextCanonical]_vars

\* ------------------------------------------------------ admin bulk apply
\* The rows a request works on: statuses, audit log, effect invocations.
Database == [status |-> status, logs |-> logs, effectLog |-> effectLog]

\* f"admin:apply:{to_state}:{order.pk}" (line 221)
ApplyKey(to_state, o) == "admin:apply:" \o to_state \o ":" \o ToString(o)

\* The selected orders as the queryset yields them: Order.Meta.ordering is
\* -created_at, the newest (highest pk) first.
RECURSIVE Queryset(_)
Queryset(S) ==
  IF S = {} THEN <<>>
  ELSE LET m == CHOOSE x \in S : \A y \in S : x >= y
       IN <<m>> \o Queryset(S \ {m})

\* transition() run from its first line to its return on database db, with
\* no other writer at work: the new database and the result. The order
\* object comes from the queryset of the same request.
TransitionOn(db, o, to_state, actor, key, dry_run) ==
  LET hs == db.status[o]
      t == SelectTransition(hs, to_state)
      ctx == QueryContext(actor, <<>>)
      g == EvaluateGuards(t, ctx)
      existing == {i \in 1..Len(db.logs) :
                     db.logs[i].order = o /\ db.logs[i].idempotency_key = key}
      log == db.logs[CHOOSE i \in existing : \A j \in existing : i >= j]
      effects == TRANSITIONS[t].effects
      msgs == [n \in 1..Len(effects) |-> <<"effect", effects[n], "ok">>]
      entry == [id |-> Len(db.logs) + 1, order |-> o, from_state |-> hs,
                to_state |-> to_state,
                actor_user |-> IF IsAuthenticated(actor) THEN actor ELSE None,
                actor_label |-> IF actor # NoActor THEN Username(actor) ELSE "",
                transition |-> TRANSITIONS[t].name, required_perms |-> <<>>,
                effects |-> msgs, idempotency_key |-> key]
  IN IF t = NoTransition
     THEN [db |-> db, result |-> TransitionResult(FALSE, hs, None, <<>>,
             << <<"No transition defined", hs, to_state>> >>, FALSE, 0)]
     ELSE IF ~g.ok
     THEN [db |-> db, result |-> TransitionResult(FALSE, hs, None, <<>>,
             << g.reason >>, FALSE, 0)]
     ELSE IF dry_run
     THEN [db |-> db, result |-> TransitionResult(TRUE, hs, to_state,
             << <<"Dry-run OK", hs, to_state, TRANSITIONS[t].name>> >>, <<>>, FALSE, 0)]
     ELSE IF Truthy(key) /\ existing # {}
     THEN [db |-> db, result |-> TransitionResult(TRUE, log.from_state, log.to_state,
             << <<"Idempotent replay">> >>, <<>>, TRUE, log.id)]
     ELSE [db |-> [status |-> [db.status EXCEPT ![o] = to_state],
                   logs |-> Append(db.logs, entry),
                   effectLog |-> [db.effectLog EXCEPT ![o] = @ \o
                     [n \in 1..Len(effects) |->
                       [n |-> n, idempotency_key |-> key, effect |-> effects[n]]]]],
           result |-> TransitionResult(TRUE, hs, to_state,
             << <<hs, to_state, TRANSITIONS[t].name>> >> \o msgs, <<>>, FALSE,
             Len(db.logs) + 1)]

\* Lines 211-226: the loop over the queryset; success counts the results
\* with success set, failed lists the pks of the others.
RECURSIVE ApplyLoop(_, _, _, _, _)
ApplyLoop(db, orders, to_state, user, dry_run) ==
  IF orders = <<>>
  THEN [db |-> db, success |-> 0, failed |-> <<>>]
  ELSE LET o == Head(orders)
           r == TransitionOn(db, o, to_state, user, ApplyKey(to_state, o), dry_run)
           rest == ApplyLoop(r.db, Tail(orders), to_state, user, dry_run)
       IN [db |-> rest.db,
           success |-> rest.success + (IF r.result.success THEN 1 ELSE 0),
           failed |-> IF r.result.success THEN rest.failed ELSE <<o>> \o rest.failed]
\* The staff users who can run the action from the changelist, and the
\* statuses of the orders when the admin is opened.
AdminUsers == {Admin, Clerk}
BulkStatuses == {PENDING, PAID, FULFILLED}

\* OrderAdmin.apply_transition on the POST that applies: selected is the
\* queryset, to_state and dry_run come from the form, whose choices are the
\* targets reachable from the status of any selected order; enabled is
\* settings.WORKFLOW_ENABLED. With the setting off the whole queryset is
\* updated to the target (lines 202-209), whatever dry_run says.
ApplyTransition(selected, to_state, dry_run, user, enabled) ==
  /\ query = NoQuery
  /\ last = NoLast
  /\ ncalls + nwrites < MaxOps
  /\ to_state \in UNION {FormChoices(o) : o \in selected}
  /\ IF ~enabled
     THEN /\ status' = [o \in Orders |-> IF o \in selected THEN to_state ELSE status[o]]
          /\ nwrites' = nwrites + 1
          /\ query' = [op |-> "apply_transition", selected |-> selected,
                       to_state |-> to_state, dry_run |-> dry_run, user |-> user,
                       enabled |-> enabled, success |-> Cardinality(selected),
                       failed |-> <<>>]
          /\ UNCHANGED <<logs, effectLog, ncalls>>
     ELSE LET r == ApplyLoop(Database, Queryset(selected), to_state, user, dry_run)
          IN /\ status' = r.db.status
             /\ logs' = r.db.logs
             /\ effectLog' = r.db.effectLog
             /\ ncalls' = ncalls + 1
             /\ query' = [op |-> "apply_transition", selected |-> selected,
                          to_state |-> to_state, dry_run |-> dry_run, user |-> user,
                          enabled |-> enabled, success |-> r.success,
                          failed |-> r.failed]
             /\ UNCHANGED nwrites
  /\ seen' = [o \in Orders |-> seen[o] \cup {status'[o]}]
  /\ UNCHANGED <<lock, calls, last, registry, session>>

InitBulk ==
  /\ status \in [Orders -> BulkStatuses]
  /\ seen = [o \in Orders |-> {status[o]}]
  /\ logs = <<>>
  /\ effectLog = [o \in Orders |-> <<>>]
  /\ lock = [o \in Orders |-> NoCaller]
  /\ calls = [c \in Callers |-> Idle]
  /\ last = NoLast
  /\ ncalls = 0
  /\ nwrites = 0
  /\ query = NoQuery
  /\ registry = BuiltinRegistry
  /\ session = EmptySession

NextBulk ==
  \/ \E selected \in SUBSET Orders \ {{}}, to_state \in TableTargets,
        dry_run \in BOOLEAN, user \in AdminUsers, enabled \in BOOLEAN :
       ApplyTransition(selected, to_state, dry_run, user, enabled)
  \/ TakeAnswer

SpecBulk == InitBulk /\ [][NextBulk]_vars

\* ------------------------------------------- calls racing on one order
\* The database when the observed calls begin: nothing has happened yet, or
\* one order was paid earlier by transition(order, "paid", superuser,
\* idempotency_key="k1"). ncalls and nwrites count from here.
InitRace ==
  \E o \in Orders \cup {NoOrder} :
    LET fresh == [status |-> [x \in Orders |-> PENDING], logs |-> <<>>,
                  effectLog |-> [x \in Orders |-> <<>>]]
        db == IF o = NoOrder THEN fresh
              ELSE TransitionOn(fresh, o, PAID, Admin, "k1", FALSE).db
    IN /\ status = db.status
       /\ logs = db.logs
       /\ effectLog = db.effectLog
       /\ seen = [x \in Orders |-> {PENDING, db.status[x]}]
       /\ lock = [x \in Orders |-> NoCaller]
       /\ calls = [c \in Callers |-> Idle]
       /\ last = NoLast
       /\ ncalls = 0
       /\ nwrites = 0
       /\ query = NoQuery
       /\ registry = BuiltinRegistry
       /\ session = EmptySession

\* transition() calls only: no other writer, no raising effect.
NextRace ==
  \/ \E c \in Callers : Call(c)
  \/ \E c \in Callers : AcquireLock(c)
  \/ \E c \in Callers : Validate(c)
  \/ \E c \in Callers : RunEffects(c)
  \/ \E c \in Callers : WriteAuditLog(c)
  \/ TakeResult

SpecRace == InitRace /\ [][NextRace]_vars

\* ----------------------------------------------------- wishlist and cart
MaxQty == 2

\* Product rows by id; product 3 has is_active false.
Products == {1, 2, 3}
ActiveProducts == {1, 2}

\* Values of request.POST["product_id"], and the id the ORM looks up for
\* each (int() of the string): "01" names product 1, "7" no product.
PostedIds == {"1", "01", "2", "3", "7"}

ParseId(product_id) ==
  CASE product_id = "1" -> 1
    [] product_id = "01" -> 1
    [] product_id = "2" -> 2
    [] product_id = "3" -> 3
    [] product_id = "7" -> 7

\* get_object_or_404(Product, id=product_id, is_active=True): the product,
\* or the empty set for Http404.
ActiveProduct(product_id) == {p \in ActiveProducts : p = ParseId(product_id)}

\* list(a_set): the elements in an order the program does not control.
ListsOf(S) ==
  {l \in UNION {[1..n -> S] : n \in {Cardinality(S)}} : Range(l) = S}

\* Lines 79-84 of views.py: remove pid if present, add it otherwise.
ToggledAddOnly(wishlist, pid) == wishlist \cup {pid}

Toggled(wishlist, pid) ==
  IF pid \in wishlist THEN wishlist \ {pid} ELSE wishlist \cup {pid}

\* views.wishlist_toggle; before is the membership set when the request
\* arrived.
WishlistToggle(product_id) ==
  LET before == Range(session.wishlist)
      found == ActiveProduct(product_id)
  IN /\ IF found = {}
        THEN /\ query' = [op |-> "wishlist_toggle", product_id |-> product_id,
                          pid |-> "", http |-> 404, in_wishlist |-> FALSE,
                          before |-> before]
             /\ UNCHANGED session
        ELSE \E product \in found :
               LET pid == ToString(product)
               IN /\ \E l \in ListsOf(Toggled(before, pid)) :
                       session' = [session EXCEPT !.wishlist = l]
                  /\ query' = [op |-> "wishlist_toggle", product_id |-> product_id,
                               pid |-> pid, http |-> 200,
                               in_wishlist |-> pid \notin before,
                               before |-> before]
     /\ UNCHANGED <<workvars, registry>>

\* Cart.__len__ and Cart.is_empty
RECURSIVE CartLen(_)
CartLen(cart) ==
  IF DOMAIN cart = {} THEN 0
  ELSE LET pid == CHOOSE x \in DOMAIN cart : TRUE
       IN cart[pid] + CartLen([x \in DOMAIN cart \ {pid} |-> cart[x]])

IsEmpty(cart) == CartLen(cart) = 0

\* max(0, n)
Max0(n) == IF n > 0 THEN n ELSE 0

\* Lines 38 and 46 of cart.py: if self.cart[pid]["qty"] <= 0: del
DropsEntryNever(qty) == FALSE

DropsEntry(qty) == qty <= 0

\* The cart with pid's entry set to qty, or without it when the qty drops it.
WithQty(cart, pid, qty) ==
  IF DropsEntry(qty)
  THEN [x \in DOMAIN cart \ {pid} |-> cart[x]]
  ELSE [x \in DOMAIN cart \cup {pid} |-> IF x = pid THEN qty ELSE cart[x]]

\* What a cart request leaves in query: the call and what len(cart) and
\* cart.is_empty() answer after it.
CartAnswer(op, pid, qty, cart) ==
  [op |-> op, pid |-> pid, qty |-> qty, len |-> CartLen(cart),
   is_empty |-> IsEmpty(cart)]

\* The qty arguments tried.
QtyArgs == (0 - MaxQty)..MaxQty

\* Cart(request).add(product, qty, replace)
CartAdd(product, qty, replace) ==
  LET cart == session.cart
      pid == ToString(product)
      old == IF pid \in DOMAIN cart THEN cart[pid] ELSE 0
      new == IF replace THEN Max0(qty) ELSE Max0(old + qty)
      after == WithQty(cart, pid, new)
  IN /\ new <= MaxQty
     /\ session' = [session EXCEPT !.cart = after]
     /\ query' = CartAnswer(IF replace THEN "cart_add_replace" ELSE "cart_add",
                            pid, qty, after)
     /\ UNCHANGED <<workvars, registry>>

\* Cart(request).update(product_id, qty)
CartUpdate(product_id, qty) ==
  LET cart == session.cart
      after == IF product_id \in DOMAIN cart
               THEN WithQty(cart, product_id, Max0(qty))
               ELSE cart
  IN /\ session' = [session EXCEPT !.cart = after]
     /\ query' = CartAnswer("cart_update", product_id, qty, after)
     /\ UNCHANGED <<workvars, registry>>

\* Cart(request).remove(product_id)
CartRemove(product_id) ==
  LET cart == session.cart
      after == [x \in DOMAIN cart \ {product_id} |-> cart[x]]
  IN /\ session' = [session EXCEPT !.cart = after]
     /\ query' = CartAnswer("cart_remove", product_id, 0, after)
     /\ UNCHANGED <<workvars, registry>>

\* Cart(request).clear()
CartClear ==
  /\ session' = [session EXCEPT !.cart = <<>>]
  /\ query' = CartAnswer("cart_clear", "", 0, <<>>)
  /\ UNCHANGED <<workvars, registry>>

NextShop ==
  \/ \E product_id \in PostedIds : WishlistToggle(product_id)
  \/ \E product \in Products, qty \in QtyArgs, replace \in BOOLEAN :
       CartAdd(product, qty, replace)
  \/ \E product_id \in PostedIds, qty \in QtyArgs : CartUpdate(product_id, qty)
  \/ \E product_id \in PostedIds : CartRemove(product_id)
  \/ CartClear
  \/ TakeAnswer

SpecShop == Init /\ [][NextShop]_vars

\* ----------------------------------------------------------------- claims
\* The call that has just returned, and kinds of return.
HasReturned == last # NoLast
Succeeded == HasReturned /\ last.result.success
FreshSuccess == Succeeded /\ ~last.result.idempotent /\ ~last.dry_run
ReplayReturned == HasReturned /\ last.result.idempotent

\* The status transition() read under the lock (None when it took no lock).
ReadUnderLock(l) == IF l.prev_state # None THEN l.prev_state ELSE l.locked_status

\* C1: transition returns success only if the table holds a definition
\* whose sources contain the caller's order.status and whose target is the
\* requested status, and every guard of that definition allowed the call.
C1_SuccessOnlyIfDefinedAndGuarded ==
  Succeeded =>
    \E i \in 1..Len(TRANSITIONS) :
      /\ last.handle_status \in Range(TRANSITIONS[i].from_states)
      /\ TRANSITIONS[i].to_state = last.to_state
      /\ \A n \in 1..Len(TRANSITIONS[i].guards) :
           CallGuard(TRANSITIONS[i].guards[n], last).ok

C1_Witness == FreshSuccess /\ last.handle_status # ReadUnderLock(last)

\* C2: a real call that succeeds without being a replay leaves the order's
\* committed status equal to the requested target, returns from_state = the
\* status the order had before the write and to_state = the target, and
\* adds exactly one audit entry, for that order, with that from_state, that
\* to_state and the supplied key; log_id is that entry's id.
C2_FreshSuccessWritesStatusAndOneLog ==
  [][ FreshSuccess' =>
        LET l == last'
            o == l.order
        IN /\ status'[o] = l.to_state
           /\ l.result.to_state = l.to_state
           /\ l.result.from_state = status[o]
           /\ Len(logs') = Len(logs) + 1
           /\ SubSeq(logs', 1, Len(logs)) = logs
           /\ logs'[Len(logs')].order = o
           /\ logs'[Len(logs')].from_state = l.result.from_state
           /\ logs'[Len(logs')].to_state = l.result.to_state
           /\ logs'[Len(logs')].idempotency_key = l.idempotency_key
           /\ logs'[Len(logs')].id = l.result.log_id
           /\ \A i \in 1..Len(logs) : logs[i].id # l.result.log_id ]_vars

C2_Witness ==
  /\ FreshSuccess
  /\ Truthy(last.idempotency_key)
  /\ last.handle_status # last.result.from_state
  /\ Len(logs) = 2

\* C4: in every reachable state the audit log, across all orders, holds at
\* most one entry with any given non-null idempotency key.
C4_KeyUniqueAcrossLog ==
  \A i, j \in 1..Len(logs) :
    (i # j /\ logs[i].idempotency_key # None) =>
      logs[i].idempotency_key # logs[j].idempotency_key

\* A second first execution with a key already in the log, on another
\* order, has reached the insert and was refused.
C4_Witness ==
  /\ HasReturned
  /\ last.result.raised = "IntegrityError"
  /\ \E i \in 1..Len(logs) :
       logs[i].idempotency_key = last.idempotency_key /\ logs[i].order # last.order

\* C9: at no time are two calls both between lock acquisition and commit
\* for the same order.
InAtomicBlock(c) == calls[c].pc \in {"locked", "effects", "audit"}

C9_MutualExclusion ==
  \A c, d \in Callers :
    (c # d /\ InAtomicBlock(c) /\ InAtomicBlock(d)) => calls[c].order # calls[d].order

\* One call is inside the atomic block, past the status write, while another
\* call on the same order waits for the row lock.
C9_Witness ==
  \E c, d \in Callers :
    /\ calls[c].pc = "audit"
    /\ lock[calls[c].order] = c
    /\ calls[d].pc = "lock"
    /\ calls[d].order = calls[c].order

\* C3: once transition(order, T, idempotency_key=k) has succeeded as a fresh
\* execution, a second real call with the same target, key and actor on that
\* order returns success with idempotent=true, the same audit entry id and
\* the recorded from/to states, whatever status the caller's order object
\* carries (the stale one or the one re-read from storage).
C3_SecondCallIsReplay ==
  [][ (HasReturned' /\ ~last'.dry_run /\ Truthy(last'.idempotency_key)) =>
        \A i \in Existing(last'.order, last'.idempotency_key) :
          (logs[i].to_state = last'.to_state /\ logs[i].actor_user = last'.actor_user) =>
            /\ last'.result.success
            /\ last'.result.idempotent
            /\ last'.result.log_id = logs[i].id
            /\ last'.result.from_state = logs[i].from_state
            /\ last'.result.to_state = logs[i].to_state ]_vars

\* C5: a call that returns idempotent=true changed nothing: the committed
\* statuses, the audit log and the effect invocations are the same after
\* the call as before it, and the call itself wrote no status and ran no
\* effect.
C5_ReplayChangesNothing ==
  [][ ReplayReturned' =>
        /\ status' = status
        /\ logs' = logs
        /\ effectLog' = effectLog
        /\ last'.prev_state = None
        /\ last'.effect_msgs = <<>> ]_vars

\* A replay returned for a call whose order object was stale: it carried the
\* status from before the recorded transition.
C5_Witness ==
  /\ ReplayReturned
  /\ last.result.success
  /\ last.handle_status # status[last.order]
  /\ last.handle_status = last.result.from_state
  /\ \E i \in 1..Len(logs) : logs[i].id = last.result.log_id /\ logs[i].order = last.order

\* C6: a call with dry_run=true, whatever its outcome and whatever key it
\* carries, changes neither the committed statuses nor the audit log, runs
\* no effect and takes no lock: it returns from the optimistic check and
\* never enters the atomic block.
C6_DryRunIsNoOp ==
  [][ /\ \A c \in Callers : calls'[c].pc # "idle" => ~calls'[c].dry_run
      /\ (HasReturned' /\ last'.dry_run) =>
           /\ UNCHANGED <<status, logs, effectLog, lock>>
           /\ last'.locked_status = None ]_vars

\* A dry run with a key reported success while the order's committed status
\* is not the target and the log holds no entry with that key.
C6_Witness ==
  /\ Succeeded
  /\ last.dry_run
  /\ Truthy(last.idempotency_key)
  /\ status[last.order] # last.to_state
  /\ Existing(last.order, last.idempotency_key) = {}
  /\ \E o \in Orders : lock[o] # NoCaller

\* Another writer committed a status for the order after the call's
\* optimistic check and before the call acquired the lock.
Raced(l) == l.locked_status # None /\ ReadUnderLock(l) # l.at_check

ConcurrentFailure(l) ==
  /\ ~l.result.success
  /\ l.result.raised = None
  /\ l.result.to_state = None
  /\ l.result.errors = << <<"State changed concurrently", ReadUnderLock(l), l.to_state>> >>

\* C7 as stated: for every status another writer stores between the
\* optimistic check and the lock, transition fails with the concurrent
\* state change error, the order keeps that status and no audit entry is
\* created.
C7_AnyRaceFails ==
  [][ (HasReturned' /\ Raced(last')) =>
        /\ ConcurrentFailure(last')
        /\ status'[last'.order] = ReadUnderLock(last')
        /\ logs' = logs ]_vars

\* C7 as amended: when the status another writer stored has no definition
\* to the requested target and no audit entry with the supplied key exists
\* for the order, transition fails with the concurrent state change error,
\* the order keeps that status and no audit entry is created.
C7_RaceToUndefinedFails ==
  [][ (/\ HasReturned'
       /\ Raced(last')
       /\ \A i \in 1..Len(TRANSITIONS) :
            ~Matches(i, ReadUnderLock(last'), last'.to_state)
       /\ ~(Truthy(last'.idempotency_key)
            /\ Existing(last'.order, last'.idempotency_key) # {})) =>
        /\ ConcurrentFailure(last')
        /\ status'[last'.order] = ReadUnderLock(last')
        /\ status[last'.order] = ReadUnderLock(last')
        /\ logs' = logs
        /\ effectLog' = effectLog ]_vars

C7_Witness ==
  /\ HasReturned
  /\ Raced(last)
  /\ last.handle_status = PENDING
  /\ last.at_check = PENDING
  /\ last.to_state = PAID
  /\ status[last.order] = CANCELLED
  /\ ConcurrentFailure(last)
  /\ logs = <<>>

\* C8: a call whose audit insert hit the unique index on idempotency_key
\* returns a successful result with idempotent=true instead of raising.
C8_ConflictIsReplay ==
  (HasReturned /\ last.prev_state # None /\ last.effect_msgs # <<>>
     /\ \E i \in 1..Len(logs) :
          /\ logs[i].idempotency_key = last.idempotency_key
          /\ logs[i].idempotency_key # None
          /\ logs[i].order # last.order) =>
    (last.result.raised = None /\ last.result.success /\ last.result.idempotent)

\* C10: for any idempotency key, over all calls carrying it, the effects of
\* a transition run at most once in total.
EffectRuns(key) ==
  UNION {{<<o, i>> : i \in {j \in 1..Len(effectLog[o]) :
                             /\ effectLog[o][j].n = 1
                             /\ effectLog[o][j].idempotency_key = key}}
         : o \in Orders}

C10_EffectsAtMostOncePerKey ==
  \A key \in Keys : Truthy(key) => Cardinality(EffectRuns(key)) <= 1

\* The call that has just returned was ended by an exception of an effect.
EffectRaised == HasReturned /\ last.result.raised = "EffectError"

NoDefinition(l) ==
  \A i \in 1..Len(TRANSITIONS) : ~Matches(i, l.handle_status, l.to_state)

GuardDenies(l) ==
  \E i \in 1..Len(TRANSITIONS) :
    /\ Matches(i, l.handle_status, l.to_state)
    /\ \E n \in 1..Len(TRANSITIONS[i].guards) : ~CallGuard(TRANSITIONS[i].guards[n], l).ok

\* C12: a call that no definition matches or that a guard rejects returns
\* success=false with from_state = the caller's order.status and to_state =
\* none, changes neither the committed statuses nor the audit log, runs no
\* effect and takes no lock: it never enters the atomic block.
C12_CheckFailureIsNoOp ==
  [][ /\ \A c \in Callers :
           calls'[c].pc # "idle" => ~NoDefinition(calls'[c]) /\ ~GuardDenies(calls'[c])
      /\ (HasReturned' /\ (NoDefinition(last') \/ GuardDenies(last'))) =>
           /\ ~last'.result.success
           /\ last'.result.raised = None
           /\ last'.result.from_state = last'.handle_status
           /\ last'.result.to_state = None
           /\ Len(last'.result.errors) = 1
           /\ last'.result.log_id = 0
           /\ last'.locked_status = None
           /\ UNCHANGED <<status, logs, effectLog, lock>> ]_vars

\* A guard rejected a call made with a stale order object: the result
\* reports the object's status, not the committed one.
C12_Witness ==
  /\ HasReturned
  /\ GuardDenies(last)
  /\ last.result.errors = << <<"Authentication required">> >>
  /\ last.handle_status # status[last.order]
  /\ last.result.from_state = last.handle_status

\* Statuses the table gives no outgoing definition.
TerminalStates == {CANCELLED, REFUNDED, RETURNED}

\* C13: for an order whose status is cancelled, refunded or returned,
\* can_transition answers allowed=false for every target and every context:
\* it finds no definition and evaluates no guard.
C13_TerminalNeverAllowed ==
  (query.op = "can_transition" /\ query.status \in TerminalStates) =>
    /\ ~query.answer.allowed
    /\ query.answer.transition = NoTransition
    /\ query.answer.evaluated = <<>>

\* A superuser asked whether a cancelled order can become paid, a target
\* the table reaches from pending.
C13_Witness ==
  /\ query.op = "can_transition"
  /\ query.status = CANCELLED
  /\ query.to_state = PAID
  /\ query.actor_user = Admin
  /\ query.answer.reason = <<"Transition is not defined", CANCELLED, PAID>>

\* The result of a call no definition matched (lines 84-89).
UndefinedFailure(l) ==
  /\ ~l.result.success
  /\ l.result.raised = None
  /\ l.result.errors = << <<"No transition defined", l.handle_status, l.to_state>> >>

\* The call repeats a key recorded for its order.
RepeatsKey(l) ==
  Truthy(l.idempotency_key) /\ Existing(l.order, l.idempotency_key) # {}

\* The audit entries of an order.
LogsOf(o) == SelectSeq(logs, LAMBDA e : e.order = o)

\* C14 as stated: once an order's committed status is cancelled, refunded
\* or returned, no step of a transition() call changes it or adds an audit
\* entry for the order, and every call on the order that returns and is not
\* a replay fails with the undefined-transition error.
C14_TerminalCallsFailUndefined ==
  [][ nwrites' = nwrites =>
        \A o \in Orders : status[o] \in TerminalStates =>
          /\ status'[o] = status[o]
          /\ LogsOf(o)' = LogsOf(o)
          /\ (HasReturned' /\ last'.order = o /\ ~last'.result.idempotent) =>
               UndefinedFailure(last') ]_vars

\* C14 as amended: once an order's committed status is cancelled, refunded
\* or returned, no step of a transition() call changes it or adds an audit
\* entry for the order; every call whose order object carries that status
\* and whose key is not recorded for the order fails with the
\* undefined-transition error, without entering the atomic block.
C14_TerminalAbsorbing ==
  [][ nwrites' = nwrites =>
        \A o \in Orders : status[o] \in TerminalStates =>
          /\ status'[o] = status[o]
          /\ LogsOf(o)' = LogsOf(o)
          /\ (/\ HasReturned'
              /\ last'.order = o
              /\ last'.handle_status = status[o]
              /\ ~RepeatsKey(last')) =>
               UndefinedFailure(last') /\ last'.locked_status = None ]_vars

\* A call on an order that a transition had cancelled, made with the
\* re-read order object, failed with the undefined-transition error.
C14_Witness ==
  /\ HasReturned
  /\ status[last.order] = CANCELLED
  /\ last.handle_status = CANCELLED
  /\ last.actor_user = Admin
  /\ UndefinedFailure(last)
  /\ \E i \in 1..Len(logs) : logs[i].order = last.order /\ logs[i].to_state = CANCELLED

\* The pairs of the canonical workflow, with the name of their definition.
CanonicalPairs ==
  { <<PENDING, PAID, "mark_paid">>, <<PAID, SHIPPED, "ship">>,
    <<SHIPPED, FULFILLED, "fulfill">>, <<PENDING, CANCELLED, "cancel">>,
    <<PAID, CANCELLED, "cancel">>, <<FULFILLED, REFUNDED, "refund">>,
    <<FULFILLED, RETURNED, "return">> }

\* C15: _select_transition returns a definition for (from, to) exactly when
\* the pair is one of the seven canonical pairs, the definition it returns
\* is the one named for the pair, it returns none for every other pair, and
\* at most one definition of the table matches any pair.
C15_TableIsCanonical ==
  query.op = "select_transition" =>
    LET from == query.from_state
        to == query.to_state
        t == query.answer
    IN /\ (t # NoTransition) <=> (\E p \in CanonicalPairs : p[1] = from /\ p[2] = to)
       /\ t # NoTransition => <<from, to, TRANSITIONS[t].name>> \in CanonicalPairs
       /\ Cardinality({i \in 1..Len(TRANSITIONS) : Matches(i, from, to)}) <= 1

\* The cancel definition was selected through its second source.
C15_Witness ==
  /\ query.op = "select_transition"
  /\ query.from_state = PAID
  /\ query.to_state = CANCELLED
  /\ query.answer # NoTransition
  /\ TRANSITIONS[query.answer].name = "cancel"

\* No definition was selected for pending to shipped.
C15_WitnessUndefined ==
  /\ query.op = "select_transition"
  /\ query.from_state = PENDING
  /\ query.to_state = SHIPPED
  /\ query.answer = NoTransition

\* The positions of a guard list whose guard denies.
Failing(guards, answers) == {k \in 1..Len(guards) : ~answers[guards[k]].ok}

\* C16: _evaluate_guards calls the guards in declared order and stops at
\* the first that fails: the guards evaluated are those up to and including
\* it, the reported reason is its reason, or the generic message naming it
\* when it gave none, and no later guard is evaluated; when none fails all
\* are evaluated and the answer is (true, none). The same holds of the
\* built-in guards under can_transition.
C16_GuardsStopAtFirstFailure ==
  /\ query.op = "evaluate_guards" =>
       LET guards == query.guards
           answers == query.answers
           failing == Failing(guards, answers)
       IN IF failing = {}
          THEN /\ query.answer.ok
               /\ query.answer.reason = <<>>
               /\ query.answer.evaluated = guards
          ELSE LET k == CHOOSE i \in failing : \A j \in failing : i <= j
               IN /\ ~query.answer.ok
                  /\ query.answer.evaluated = SubSeq(guards, 1, k)
                  /\ query.answer.reason =
                       IF answers[guards[k]].reason # <<>>
                       THEN answers[guards[k]].reason
                       ELSE <<"Guard failed", guards[k]>>
  /\ (query.op = "can_transition" /\ query.answer.transition # NoTransition
        /\ ~query.answer.allowed) =>
       /\ query.answer.evaluated = <<"role_allowed">>
       /\ query.answer.reason \in
            {<<"Authentication required">>} \cup
            {<<"Missing permission", perm>> : perm \in {"core.change_order", "core.view_order"}}

\* Guards [A, B], both failing, A without a reason: the generic message
\* names A and B was not evaluated.
C16_Witness ==
  /\ query.op = "evaluate_guards"
  /\ query.guards = <<"A", "B">>
  /\ ~query.answers["A"].ok /\ query.answers["A"].reason = <<>>
  /\ ~query.answers["B"].ok
  /\ query.answer.reason = <<"Guard failed", "A">>
  /\ query.answer.evaluated = <<"A">>

\* The answer of the allowed_transitions call in query is the expected one.
AllowedAnswerCorrect ==
  LET a == query.answer
      defs == {i \in 1..Len(TRANSITIONS) : query.status \in Range(TRANSITIONS[i].from_states)}
      ctx == QueryContext(query.actor_user, query.required_perms)
  IN /\ Len(a) = Cardinality(defs)
     /\ \A n \in 1..Len(a) :
          /\ a[n].transition \in defs
          /\ a[n].to_state = TRANSITIONS[a[n].transition].to_state
          /\ \A m \in 1..Len(a) : n < m => a[n].transition < a[m].transition
          /\ IF ~query.ctx_given
             THEN a[n].allowed /\ a[n].reason = <<>> /\ a[n].evaluated = <<>>
             ELSE a[n].allowed <=>
                    \A k \in 1..Len(TRANSITIONS[a[n].transition].guards) :
                      CallGuard(TRANSITIONS[a[n].transition].guards[k], ctx).ok
     /\ (query.status = PENDING /\ ~query.ctx_given) =>
          [n \in 1..Len(a) |-> a[n].to_state] = <<PAID, CANCELLED>>

\* C17: allowed_transitions returns one attempt per definition whose
\* sources contain order.status, in declaration order; with ctx = none every
\* attempt is allowed and no guard is evaluated (for a pending order the
\* targets are paid and cancelled); with a ctx an attempt is allowed exactly
\* when all guards of its definition pass; the call changes neither the
\* orders nor the audit log.
C17_AllowedTransitions ==
  [][ query'.op = "allowed_transitions" =>
        /\ AllowedAnswerCorrect'
        /\ UNCHANGED <<status, logs, effectLog, lock>> ]_vars

\* A pending order without a context: paid and cancelled, both allowed.
C17_Witness ==
  /\ query.op = "allowed_transitions"
  /\ query.status = PENDING
  /\ ~query.ctx_given
  /\ Len(query.answer) = 2
  /\ query.answer[1].to_state = PAID /\ query.answer[1].allowed
  /\ query.answer[2].to_state = CANCELLED /\ query.answer[2].allowed

\* A paid order and a context whose user lacks core.change_order: ship and
\* cancel, both denied.
C17_WitnessDenied ==
  /\ query.op = "allowed_transitions"
  /\ query.status = PAID
  /\ query.ctx_given
  /\ query.actor_user = Clerk
  /\ \A n \in 1..Len(query.answer) :
       query.answer[n].reason = <<"Missing permission", "core.change_order">>

\* The step is the commit of a successful real transition() on order o
\* that appends the matching audit entry.
CommitsTransition(o) ==
  /\ FreshSuccess'
  /\ last'.order = o
  /\ last'.to_state = status'[o]
  /\ Len(logs') = Len(logs) + 1
  /\ logs'[Len(logs')].order = o
  /\ logs'[Len(logs')].from_state = status[o]
  /\ logs'[Len(logs')].to_state = status'[o]
  /\ logs'[Len(logs')].id = last'.result.log_id

C19_AuditLogAppendOnly ==
  [][ /\ \A i \in 1..Len(logs) : Len(logs') >= i /\ logs'[i] = logs[i]
      /\ Len(logs') > Len(logs) =>
           /\ Len(logs') = Len(logs) + 1
           /\ FreshSuccess'
           /\ last'.result.log_id = logs'[Len(logs')].id ]_vars

\* C20: calls on different orders never contend: a call waiting for the
\* row lock of its order can take it whenever no call holds that order's
\* lock, whatever calls on other orders hold; and a call that entered the
\* atomic block, found no entry with its key for its own order and found a
\* definition from its own order's locked status succeeds, whatever earlier
\* or concurrent calls on other orders did.
C20_NoContentionAcrossOrders ==
  /\ \A c \in Callers :
       (last = NoLast /\ calls[c].pc = "lock" /\ lock[calls[c].order] = NoCaller) =>
         ENABLED AcquireLock(c)
  /\ (/\ HasReturned
      /\ last.prev_state # None
      /\ \A i \in 1..Len(logs) :
           logs[i].order = last.order => logs[i].id = last.result.log_id
                                         \/ logs[i].idempotency_key # last.idempotency_key
                                         \/ ~Truthy(last.idempotency_key)) =>
       last.result.raised = None /\ last.result.success

\* A registry table keeps every binding it has.
KeepsBindings(before, after) ==
  \A k \in DOMAIN before : k \in DOMAIN after /\ after[k] = before[k]

\* C22: registering a key that is already registered fails with a
\* configuration error and leaves the registries unchanged; registering a
\* new key binds it and touches no other binding and not the other
\* registry; getting a key never registered fails with a configuration
\* error and getting a registered key returns its binding; no step changes
\* an existing binding, so each key keeps the first callable registered
\* under it; the guard and the effect registry are separate namespaces.
C22_RegistryKeysUnique ==
  [][ /\ KeepsBindings(registry.guards, registry'.guards)
      /\ KeepsBindings(registry.effects, registry'.effects)
      /\ query = NoQuery /\ query'.op = "register_guard" =>
           /\ registry'.effects = registry.effects
           /\ IF query'.key \in DOMAIN registry.guards
              THEN query'.raised = "ImproperlyConfigured" /\ registry' = registry
              ELSE /\ query'.raised = None
                   /\ DOMAIN registry'.guards = DOMAIN registry.guards \cup {query'.key}
                   /\ registry'.guards[query'.key] = query'.fn
      /\ query = NoQuery /\ query'.op = "register_effect" =>
           /\ registry'.guards = registry.guards
           /\ IF query'.key \in DOMAIN registry.effects
              THEN query'.raised = "ImproperlyConfigured" /\ registry' = registry
              ELSE /\ query'.raised = None
                   /\ DOMAIN registry'.effects = DOMAIN registry.effects \cup {query'.key}
                   /\ registry'.effects[query'.key] = query'.fn
      /\ query = NoQuery /\ query'.op = "get_guard" =>
           /\ registry' = registry
           /\ IF query'.key \in DOMAIN registry.guards
              THEN query'.raised = None /\ query'.answer = registry.guards[query'.key]
              ELSE query'.raised = "ImproperlyConfigured"
      /\ query = NoQuery /\ query'.op = "get_effect" =>
           /\ registry' = registry
           /\ IF query'.key \in DOMAIN registry.effects
              THEN query'.raised = None /\ query'.answer = registry.effects[query'.key]
              ELSE query'.raised = "ImproperlyConfigured" ]_vars

\* A second registration of the key "custom" as a guard failed, the first
\* binding stands, and the same key is bound to another callable as an
\* effect.
C22_Witness ==
  /\ query.op = "register_guard"
  /\ query.key = "custom"
  /\ query.raised = "ImproperlyConfigured"
  /\ registry.guards["custom"] = "f1"
  /\ "custom" \in DOMAIN registry.effects
  /\ registry.effects["custom"] = "f2"

\* A transition() call has ended with the configuration error of an
\* unregistered guard or effect key.
UnknownKeyRaised ==
  last.pc = "returned" /\ last.result.raised = "ImproperlyConfigured"

\* C21: no transition() call ends with the error of an unregistered guard
\* or effect key, and in particular none does after having written the
\* status (a definition naming such a key is refused when the process
\* starts).
C21_UnknownKeyNeverAtRequestTime ==
  ~UnknownKeyRaised

\* C23: every order's committed status is one of the seven statuses, and
\* whatever target string is requested, a status that transition() has
\* written inside its transaction, committed or recorded in the audit log
\* is the target of a definition of the table.
C23_StatusAlwaysValid ==
  /\ \A o \in Orders : status[o] \in OrderStatus
  /\ \A c \in Callers :
       calls[c].pc \in {"effects", "audit"} => calls[c].locked_status \in TableTargets
  /\ \A i \in 1..Len(logs) : logs[i].to_state \in TableTargets
  /\ Succeeded => last.result.to_state \in TableTargets

\* After a transition was applied, a call asking for a target that is not a
\* status has returned.
C23_Witness ==
  /\ HasReturned
  /\ last.to_state \notin OrderStatus
  /\ \E i \in 1..Len(logs) : status[logs[i].order] = logs[i].to_state

\* The call passed selection and guards on its order object, was a real
\* call, and has read the order's row under the lock.
ReachedLock(l) == l.pc = "returned" /\ ~l.dry_run /\ l.locked_status # None

\* C24: a real call whose selection and guards passed on the caller's
\* status, when the status read under the lock has no definition to the
\* target and no audit entry with the call's key exists for the order,
\* returns success=false with from_state the locked status, to_state none
\* and the concurrent state change error naming the locked status and the
\* target; it changes no status, writes no audit entry and runs no effect.
C24_RevalidationUnderLock ==
  [][ (/\ ReachedLock(last')
       /\ SelectTransition(ReadUnderLock(last'), last'.to_state) = NoTransition
       /\ ~(Truthy(last'.idempotency_key)
            /\ Existing(last'.order, last'.idempotency_key) # {})) =>
        /\ ~last'.result.success
        /\ ~last'.result.idempotent
        /\ last'.result.raised = None
        /\ last'.result.from_state = status[last'.order]
        /\ last'.result.from_state = ReadUnderLock(last')
        /\ last'.result.to_state = None
        /\ last'.result.log_id = 0
        /\ last'.result.messages = <<>>
        /\ last'.result.errors =
             << <<"State changed concurrently", status[last'.order], last'.to_state>> >>
        /\ UNCHANGED <<status, logs, effectLog>> ]_vars

\* The caller's order object still said pending when the row was already
\* cancelled: selection and guards passed for target paid on pending, the
\* re-validation refused on cancelled.
C24_Witness ==
  /\ ReachedLock(last)
  /\ last.handle_status = PENDING
  /\ last.at_check = CANCELLED
  /\ last.to_state = PAID
  /\ Truthy(last.idempotency_key)
  /\ ~last.result.success
  /\ last.result.from_state = CANCELLED
  /\ status[last.order] = CANCELLED

\* The call holds the lock on its order's row.
HoldsLock(c) == calls[c].pc # "idle" /\ lock[calls[c].order] = c

\* C25: selection and guards run before the lock is taken (a call that has
\* passed them holds no lock yet, and a call that returns from them has
\* touched no lock); the idempotency check and the re-validation run only
\* while the lock is held (the step that returns a replay or the concurrent
\* state change failure releases the lock it held); and the idempotency
\* check comes first: a call that reached the lock while an audit entry with
\* its key exists for its order returns the replay, also when the locked
\* status has no definition to the target.
C25_OrderOfChecks ==
  [][ /\ \A c \in Callers :
           /\ calls[c].pc = "lock" => ~HoldsLock(c)
           /\ calls[c].pc \in {"locked", "effects", "audit"} => HoldsLock(c)
      /\ (HasReturned' /\ last'.locked_status = None) => lock' = lock
      /\ (ReachedLock(last') /\ last'.prev_state = None) =>
           /\ lock[last'.order] # NoCaller
           /\ lock'[last'.order] = NoCaller
      /\ (/\ ReachedLock(last')
          /\ Truthy(last'.idempotency_key)
          /\ Existing(last'.order, last'.idempotency_key) # {}) =>
           /\ last'.result.success
           /\ last'.result.idempotent
           /\ last'.result.errors = <<>> ]_vars

\* A replay was returned although the status read under the lock has no
\* definition to the requested target.
C25_Witness ==
  /\ ReplayReturned
  /\ ReachedLock(last)
  /\ last.locked_status = PAID
  /\ last.to_state = PAID
  /\ SelectTransition(last.locked_status, last.to_state) = NoTransition

\* The invocations and the completion messages of a list of effects run in
\* order by a call with this key.
Invocations(effects, key) ==
  [n \in 1..Len(effects) |-> [n |-> n, idempotency_key |-> key, effect |-> effects[n]]]

Completions(effects) == [n \in 1..Len(effects) |-> <<"effect", effects[n], "ok">>]

\* The last n elements of a sequence.
Tail_n(seq, n) == SubSeq(seq, Len(seq) - n + 1, Len(seq))

\* C26: effects are invoked only by a call that has written the status in
\* its transaction and has not yet inserted its audit entry, and that call
\* invokes the effects of the definition re-selected under the lock, once
\* each, in declared order; when the call then returns its fresh success,
\* those invocations are the order's latest, the result's messages are the
\* transition message followed by one completion message per effect, and the
\* audit entry records the same completion messages and the name of the
\* re-selected definition.
C26_EffectsOnceInOrder ==
  [][ /\ effectLog' # effectLog =>
           \E c \in Callers :
             LET call == calls[c]
                 o == call.order
                 t == TRANSITIONS[SelectTransition(call.prev_state, call.to_state)]
             IN /\ call.pc = "effects"
                /\ calls'[c].pc = "audit"
                /\ call.prev_state # None
                /\ call.locked_status = call.to_state
                /\ logs' = logs
                /\ effectLog' = [effectLog EXCEPT ![o] =
                                   @ \o Invocations(t.effects, call.idempotency_key)]
      /\ \A c \in Callers : calls[c].pc = "effects" => calls'[c].pc # "idle"
      /\ FreshSuccess' =>
           LET l == last'
               t == TRANSITIONS[SelectTransition(l.prev_state, l.to_state)]
               n == Len(t.effects)
           IN /\ effectLog' = effectLog
              /\ Len(effectLog[l.order]) >= n
              /\ Tail_n(effectLog[l.order], n) = Invocations(t.effects, l.idempotency_key)
              /\ l.result.messages =
                   << <<l.prev_state, l.to_state, t.name>> >> \o Completions(t.effects)
              /\ Len(logs') = Len(logs) + 1
              /\ logs'[Len(logs')].effects = Completions(t.effects)
              /\ logs'[Len(logs')].transition = t.name ]_vars

\* An order was paid and then shipped by two calls: the four effects of
\* mark_paid and then the two of ship were invoked on it, and the second
\* call has returned.
C26_Witness ==
  /\ FreshSuccess
  /\ last.to_state = SHIPPED
  /\ Len(logs) = 2
  /\ Len(effectLog[last.order]) = 6
  /\ Len(last.result.messages) = 3

\* C27: the from_state of a fresh success, in the result and in the audit
\* entry, is the status the order's row had when the call held the lock
\* (the status committed until the call's own commit), from which the table
\* defines the transition to the target; it is not the status of the
\* caller's order object when the two differ.
C27_FromStateIsLockedStatus ==
  [][ FreshSuccess' =>
        LET l == last'
            locked_before == status[l.order]
        IN /\ l.result.from_state = locked_before
           /\ logs'[Len(logs')].id = l.result.log_id
           /\ logs'[Len(logs')].from_state = locked_before
           /\ SelectTransition(locked_before, l.to_state) # NoTransition
           /\ l.handle_status # locked_before =>
                /\ l.result.from_state # l.handle_status
                /\ logs'[Len(logs')].from_state # l.handle_status ]_vars

\* The caller's order object said pending, another writer had made the row
\* paid, and the call to cancelled was applied from paid.
C27_Witness ==
  /\ FreshSuccess
  /\ last.handle_status = PENDING
  /\ last.to_state = CANCELLED
  /\ last.result.from_state = PAID
  /\ logs[Len(logs)].from_state = PAID
  /\ logs[Len(logs)].to_state = CANCELLED
  /\ status[last.order] = CANCELLED

\* The permissions role_allowed requires for params["required_perms"].
RequiredOf(perms) == IF perms = <<>> THEN <<"core.change_order">> ELSE perms

\* An absent or anonymous actor.
Unauthenticated(actor) == actor = NoActor \/ actor = Anonymous

\* C28: role_allowed denies with 'Authentication required' when the actor
\* is absent or anonymous; otherwise it checks the permissions of
\* params['required_perms'], or core.change_order alone when the entry is
\* missing or empty, in order, denies naming the first one the actor lacks
\* and allows exactly when the actor holds them all. Every definition of
\* the table lists role_allowed first, so for an absent or anonymous actor
\* can_transition never answers allowed and no transition() call gets past
\* its guards, whatever the order's status, the target and the parameters.
C28_RoleAllowed ==
  /\ \A i \in 1..Len(TRANSITIONS) :
       TRANSITIONS[i].guards # <<>> /\ TRANSITIONS[i].guards[1] = "role_allowed"
  /\ query.op = "guard_role_allowed" =>
       LET required == RequiredOf(query.required_perms)
           missing == {n \in 1..Len(required) : ~HasPerm(query.actor_user, required[n])}
       IN /\ Unauthenticated(query.actor_user) =>
               query.answer = Deny(<<"Authentication required">>)
          /\ (~Unauthenticated(query.actor_user) /\ missing # {}) =>
               \E n \in missing :
                 /\ \A m \in missing : n <= m
                 /\ query.answer = Deny(<<"Missing permission", required[n]>>)
          /\ query.answer.ok <=> (~Unauthenticated(query.actor_user) /\ missing = {})
          /\ query.answer.ok => query.answer = Allow
  /\ (query.op = "can_transition" /\ Unauthenticated(query.actor_user)) =>
       /\ ~query.answer.allowed
       /\ query.answer.transition # NoTransition =>
            /\ query.answer.reason = <<"Authentication required">>
            /\ query.answer.evaluated = <<"role_allowed">>
  /\ (query.op = "transition" /\ Unauthenticated(query.actor_user)) =>
       /\ query.answer.outcome = "failure"
       /\ SelectTransition(query.status, query.to_state) # NoTransition =>
            /\ query.answer.errors = << <<"Authentication required">> >>
            /\ query.answer.evaluated = <<"role_allowed">>

\* role_allowed was asked for delete and view permissions on behalf of a
\* user who holds only the second, and denied naming the first.
C28_Witness ==
  /\ query.op = "guard_role_allowed"
  /\ query.actor_user = Clerk
  /\ query.required_perms = <<"core.delete_order", "core.view_order">>
  /\ query.answer = Deny(<<"Missing permission", "core.delete_order">>)

\* A transition() call for a defined transition by an anonymous user failed
\* at its first guard.
C28_WitnessAnonymous ==
  /\ query.op = "transition"
  /\ query.actor_user = Anonymous
  /\ query.status = PENDING
  /\ query.to_state = PAID
  /\ query.answer.outcome = "failure"

\* The table defines a transition from this status to the target.
Admits(state, to_state) == SelectTransition(state, to_state) # NoTransition

\* The ids of the audit entries a step adds for order o.
AddedFor(o) == {i \in (Len(logs) + 1)..Len(logs') : logs'[i].order = o}

\* C29: a bulk apply treats each selected order on its own. A real apply of
\* target T leaves every selected order whose status admitted T in T, with
\* exactly one new audit entry for that change, and every other order in its
\* status with no new entry, whatever happens to the other selected orders;
\* an apply with dry_run set changes no status and writes no audit entry.
C29_BulkApplyIndependent ==
  [][ (query = NoQuery /\ query'.op = "apply_transition") =>
        LET T == query'.to_state
        IN /\ SubSeq(logs', 1, Len(logs)) = logs
           /\ query'.dry_run => (status' = status /\ logs' = logs)
           /\ ~query'.dry_run =>
                \A o \in Orders :
                  IF o \in query'.selected /\ Admits(status[o], T)
                  THEN /\ status'[o] = T
                       /\ Cardinality(AddedFor(o)) = 1
                       /\ \A i \in AddedFor(o) :
                            /\ logs'[i].from_state = status[o]
                            /\ logs'[i].to_state = T
                  ELSE /\ status'[o] = status[o]
                       /\ AddedFor(o) = {} ]_vars

\* C30: has_delete_permission answers false for every order whose status is
\* paid, whoever asks, and for an order in any other status (and when asked
\* for no order in particular) it answers what the default permission
\* check answers for the asking user.
C30_PaidOrdersNotDeletable ==
  query.op = "has_delete_permission" =>
    /\ query.status = PAID => ~query.answer
    /\ query.status # PAID => (query.answer <=> DefaultDeletePermission(query.user))

\* A superuser asked for a paid order and was refused.
C30_Witness ==
  /\ query.op = "has_delete_permission"
  /\ query.user = Admin
  /\ query.obj # NoOrder
  /\ status[query.obj] = PAID
  /\ ~query.answer

\* A superuser asked for a pending order and was allowed.
C30_WitnessPending ==
  /\ query.op = "has_delete_permission"
  /\ query.user = Admin
  /\ query.status = PENDING
  /\ query.answer

\* The step is a wishlist_toggle request that found its product.
TogglesProduct ==
  /\ query' # query
  /\ query'.op = "wishlist_toggle"
  /\ query'.http = 200

\* C31: a wishlist_toggle for an active product flips that product's
\* membership in the session wishlist and leaves the membership of every
\* other product as it was; a second toggle of the same product right after
\* the first leaves the membership set the first one found.
C31_ToggleIsInvolution ==
  [][ TogglesProduct =>
        LET before == Range(session.wishlist)
            after == Range(session'.wishlist)
            pid == query'.pid
        IN /\ (pid \in after) <=> (pid \notin before)
           /\ query'.in_wishlist <=> (pid \in after)
           /\ \A x \in (before \cup after) \ {pid} : (x \in after) <=> (x \in before)
           /\ Len(session'.wishlist) = Cardinality(after)
           /\ session'.cart = session.cart
           /\ (query.op = "wishlist_toggle" /\ query.http = 200 /\ query.pid = pid) =>
                after = query.before ]_vars

\* With products 1 and 2 on the wishlist, a toggle naming product 1 as "01"
\* took it off and left product 2 on.
C31_Witness ==
  /\ query.op = "wishlist_toggle"
  /\ query.product_id = "01"
  /\ query.http = 200
  /\ ~query.in_wishlist
  /\ query.before = {"1", "2"}
  /\ session.wishlist = <<"2">>

\* C38: after every cart operation each entry of the session cart has an
\* integer qty of at least 1 (an add or update whose result is 0 or less
\* leaves no entry for the product), len(cart) is the sum of the entries'
\* quantities, and is_empty answers true exactly when the cart has no
\* entry; update and remove of a product that is not in the cart leave the
\* cart as it was.
C38_CartQuantities ==
  [][ LET cart == session'.cart
      IN /\ \A pid \in DOMAIN cart : cart[pid] \in Nat /\ cart[pid] >= 1
         /\ (query' # query /\ query'.op \in {"cart_add", "cart_add_replace",
                "cart_update", "cart_remove", "cart_clear"}) =>
              /\ query'.len = CartLen(cart)
              /\ query'.len >= Cardinality(DOMAIN cart)
              /\ query'.is_empty <=> (DOMAIN cart = {})
              /\ session'.wishlist = session.wishlist
         /\ (query' # query /\ query'.op \in {"cart_update", "cart_remove"}
               /\ query'.pid \notin DOMAIN session.cart) =>
              session' = session
         /\ (query' # query /\ query'.op = "cart_update"
               /\ query'.pid \in DOMAIN session.cart) =>
              IF query'.qty >= 1
              THEN cart = [session.cart EXCEPT ![query'.pid] = query'.qty]
              ELSE cart = [x \in DOMAIN session.cart \ {query'.pid} |-> session.cart[x]]
         /\ (query' # query /\ query'.op = "cart_add") =>
              LET pid == query'.pid
                  old == IF pid \in DOMAIN session.cart THEN session.cart[pid] ELSE 0
              IN IF old + query'.qty >= 1
                 THEN pid \in DOMAIN cart /\ cart[pid] = old + query'.qty
                 ELSE pid \notin DOMAIN cart ]_vars

\* After an add with qty -1 the cart has no entry, its length is 0 and it is
\* empty.
C38_Witness ==
  /\ query.op = "cart_add"
  /\ query.qty = 0 - 1
  /\ query.is_empty
  /\ query.len = 0
  /\ session.cart = <<>>

\* The status an order is created with (Order.status default).
CreationStatus == PENDING

\* C32: when only the engine writes the status, the audit entries of each
\* order, in creation order, form a chain: the first starts at the order's
\* creation status, each later one starts where the one before it ended,
\* and the last one ends at the order's committed status (an order without
\* entries still has its creation status).
C32_AuditChain ==
  \A o \in Orders :
    LET chain == LogsOf(o)
    IN /\ chain = <<>> => status[o] = CreationStatus
       /\ chain # <<>> =>
            /\ chain[1].from_state = CreationStatus
            /\ chain[Len(chain)].to_state = status[o]
            /\ \A n \in 2..Len(chain) : chain[n].from_state = chain[n - 1].to_state

\* An order with a chain of two entries, the second written by a call whose
\* order object still carried the creation status.
C32_Witness ==
  /\ FreshSuccess
  /\ last.handle_status = PENDING
  /\ Len(LogsOf(last.order)) = 2
  /\ LogsOf(last.order)[2].from_state = PAID
  /\ status[last.order] = CANCELLED

\* C33: also when other writers change statuses directly, every audit
\* entry's pair (from_state, to_state) has a definition in the table, and
\* the transition name the entry stores is the name of the first definition
\* matching that pair.
C33_EntriesAreLegal ==
  \A i \in 1..Len(logs) :
    LET t == SelectTransition(logs[i].from_state, logs[i].to_state)
    IN /\ t # NoTransition
       /\ \E j \in 1..Len(TRANSITIONS) :
            Matches(j, logs[i].from_state, logs[i].to_state)
       /\ logs[i].transition = TRANSITIONS[t].name

\* After a direct write made an order paid, a call whose order object said
\* pending cancelled it: the entry records paid -> cancelled.
C33_Witness ==
  /\ nwrites = 1
  /\ \E i \in 1..Len(logs) :
       /\ logs[i].from_state = PAID
       /\ logs[i].to_state = CANCELLED
       /\ logs[i].transition = "cancel"
  /\ FreshSuccess
  /\ last.handle_status = PENDING

\* The statuses the table leads to from a status in one transition.
Successors(state) == {TRANSITIONS[i].to_state : i \in TransitionsForState(state)}

\* The table has a path of n transitions starting at the status.
RECURSIVE HasPath(_, _)
HasPath(state, n) ==
  IF n = 0 THEN TRUE ELSE \E next \in Successors(state) : HasPath(next, n - 1)

\* The length of the longest path from the status (the table is acyclic
\* when no status has a path as long as the number of statuses).
Remaining(state) ==
  CHOOSE n \in 0..Cardinality(OrderStatus) : HasPath(state, n) /\ ~HasPath(state, n + 1)

LongestPath == [s \in OrderStatus |-> Remaining(s)]

TableAcyclic == \A s \in OrderStatus : ~HasPath(s, Cardinality(OrderStatus))

\* C34: the table is acyclic and its longest path, from pending, has four
\* transitions; when only the engine writes, every change of an order's
\* status moves it to a status with a strictly shorter longest path, so no
\* order enters a status twice; the number of an order's audit entries plus
\* the length of the longest path from its status never exceeds four; and
\* an order has at most one audit entry per target status, none of them
\* back to the creation status.
C34_WorkflowAcyclic ==
  [][ /\ TableAcyclic
      /\ LongestPath[CreationStatus] = 4
      /\ \A s \in OrderStatus : LongestPath[s] <= 4
      /\ \A o \in Orders :
           /\ status'[o] # status[o] => LongestPath[status'[o]] < LongestPath[status[o]]
           /\ Len(LogsOf(o)') + LongestPath[status'[o]] <= 4
           /\ \A m, n \in 1..Len(LogsOf(o)') :
                /\ LogsOf(o)'[n].to_state # CreationStatus
                /\ m # n => LogsOf(o)'[m].to_state # LogsOf(o)'[n].to_state ]_vars

\* An order went pending, paid, shipped through two calls: two entries, two
\* transitions left on its longest path.
C34_Witness ==
  /\ FreshSuccess
  /\ status[last.order] = SHIPPED
  /\ Len(LogsOf(last.order)) = 2
  /\ LongestPath[SHIPPED] = 2

\* The call `other` waits for the lock of the order of the returned call l,
\* with the same target, and both passed the optimistic check on the same
\* status of their order objects, the committed one.
WaitingRival(l, other) ==
  /\ other.pc = "lock"
  /\ other.order = l.order
  /\ other.to_state = l.to_state
  /\ other.handle_status = l.handle_status
  /\ other.at_check = l.at_check
  /\ l.at_check = l.handle_status

\* The audit entries that record the order going from one status to another.
EntriesFor(o, from, to) ==
  {i \in 1..Len(logs) : /\ logs[i].order = o
                        /\ logs[i].from_state = from
                        /\ logs[i].to_state = to}

\* C35: of two concurrent real transition calls on one order with the same
\* target that both passed the optimistic check on the same starting status,
\* the first to leave the atomic block is a fresh execution (it writes the
\* status, runs the definition's effects once and inserts one audit entry),
\* and the second, which reads the target status under the lock, changes
\* nothing and returns the idempotent replay of that entry when it carries
\* the same key, the concurrent-state-change failure otherwise.
C35_ConcurrentSameTarget ==
  [][ /\ (ReachedLock(last') /\ \E d \in Callers : WaitingRival(last', calls'[d])) =>
           /\ FreshSuccess'
           /\ last'.result.from_state = last'.at_check
           /\ last'.result.to_state = last'.to_state
           /\ status'[last'.order] = last'.to_state
           /\ Len(logs') = Len(logs) + 1
           /\ LET effects == TRANSITIONS[last'.latest].effects
              IN Tail_n(effectLog'[last'.order], Len(effects))
                   = Invocations(effects, last'.idempotency_key)
      /\ (/\ ReachedLock(last')
          /\ last'.at_check = last'.handle_status
          /\ ReadUnderLock(last') = last'.to_state
          /\ EntriesFor(last'.order, last'.at_check, last'.to_state) # {}) =>
           LET made == EntriesFor(last'.order, last'.at_check, last'.to_state)
               e == logs[CHOOSE i \in made : \A j \in made : i >= j]
           IN /\ status' = status
              /\ logs' = logs
              /\ effectLog' = effectLog
              /\ IF Truthy(last'.idempotency_key)
                      /\ e.idempotency_key = last'.idempotency_key
                 THEN /\ last'.result.success
                      /\ last'.result.idempotent
                      /\ last'.result.log_id = e.id
                 ELSE ConcurrentFailure(last') ]_vars

\* C36: in every fresh successful real transition the definition re-selected
\* from the status read under the lock is the definition selected from the
\* caller's order object, whose guards were evaluated before the lock, also
\* when the committed status changed between the two selections; a call in
\* flight past the re-validation already carries that definition.
C36_SameDefinitionUnderLock ==
  /\ FreshSuccess =>
        /\ last.latest # NoTransition
        /\ last.latest = SelectTransition(last.prev_state, last.to_state)
        /\ last.latest = SelectTransition(last.handle_status, last.to_state)
  /\ \A c \in Callers :
        calls[c].pc \in {"effects", "audit"} =>
          /\ calls[c].latest # NoTransition
          /\ calls[c].latest = SelectTransition(calls[c].handle_status, calls[c].to_state)

\* A fresh success whose guards were evaluated on a pending order object
\* while the order was pending, and whose locked row read paid.
C36_Witness ==
  /\ FreshSuccess
  /\ last.handle_status = PENDING
  /\ last.at_check = PENDING
  /\ last.prev_state = PAID
  /\ last.to_state = CANCELLED

\* The order locks a caller holds.
LocksHeld(c) == {o \in Orders : lock[o] = c}

\* C37: a caller never holds more than one order lock, and every real
\* transition call that has passed the optimistic check, whatever the other
\* callers and writers do, eventually returns and holds no lock.
C37_EveryCallReturns ==
  /\ [](\A c \in Callers : Cardinality(LocksHeld(c)) <= 1)
  /\ \A c \in Callers :
        (calls[c].pc # "idle") ~> (calls[c].pc = "idle" /\ LocksHeld(c) = {})

\* A call has left the atomic block and released its order's lock while
\* another call waits for the lock of the same order.
C37_Witness ==
  /\ ReachedLock(last)
  /\ lock[last.order] = NoCaller
  /\ \E d \in Callers : calls[d].pc = "lock" /\ calls[d].order = last.order

\* The guard keys and the effect keys the canonical definitions name.
CanonicalGuardKeys == UNION {Range(TRANSITIONS[i].guards) : i \in 1..Len(TRANSITIONS)}

CanonicalEffectKeys == UNION {Range(TRANSITIONS[i].effects) : i \in 1..Len(TRANSITIONS)}

\* C39: whatever is registered after import, every guard key and effect key
\* a canonical definition names is registered and bound to the built-in of
\* that name, and the lookups made for a canonical definition never raise
\* the unknown-key configuration error: they find the built-ins.
C39_CanonicalKeysRegistered ==
  /\ \A k \in CanonicalGuardKeys :
        k \in DOMAIN registry.guards /\ registry.guards[k] = k
  /\ \A k \in CanonicalEffectKeys :
        k \in DOMAIN registry.effects /\ registry.effects[k] = k
  /\ query.op = "resolve" =>
        /\ query.raised = None
        /\ query.guards = TRANSITIONS[query.transition].guards
        /\ query.effects = TRANSITIONS[query.transition].effects

\* The lookups for "refund", the definition with the most effect keys, were
\* answered after a guard and an effect had been registered under new keys.
C39_Witness ==
  /\ query.op = "resolve"
  /\ TRANSITIONS[query.transition].name = "refund"
  /\ "custom" \in DOMAIN registry.guards
  /\ "custom" \in DOMAIN registry.effects
====
